---------------------------- MODULE Spec2Model ----------------------------
(***************************************************************************)
(* DiffShield (docsmind): documentation review pipeline.                   *)
(*                                                                         *)
(* Three specifications over one set of variables:                         *)
(*   SpecDiff  computeSemanticDiff applied to pairs of parsed documents;   *)
(*   SpecFn    parseV2Response, generateDeterministicFallback and the      *)
(*             verdict guardrail applied to inputs of their type domains;  *)
(*   Spec      handlePullRequest: findings are collected, the model is     *)
(*             called (or not), the review is built and posted.            *)
(*                                                                         *)
(* Numbers in [0,1] (confidences) are kept in hundredths: 0.82 is 82.      *)
(* A text is a sequence of words; a section content is compared as a       *)
(* string (sequence equality) and by its case-folded word set.             *)
(***************************************************************************)
EXTENDS Integers, Sequences, FiniteSets, TLC

VARIABLES
    \* semantic diff engine
    oldDoc,      \* DocDocument.sections of the base revision
    newDoc,      \* DocDocument.sections of the head revision
    diff,        \* result of computeSemanticDiff, or NoDiff before the call
    dpc,         \* position of the diff run: "idle", "ready", "done"
    \* review of one pull-request event
    rpc,         \* position of handlePullRequest / of the function run
    configured,  \* MINIMAX_API_KEY and MINIMAX_GROUP_ID are both set
    prBody,      \* pull_request.body ("" when there is none)
    docType,     \* docType.type, "null" while no file has been classified
    changes,     \* the section changes collected over the files
    codeFiles,   \* number of code files (-1: argument undefined)
    filesLeft,   \* Markdown files still to analyse
    allFindings, \* the findings collected so far
    aiResponse,  \* the model's answer, NoAnswer when there is none
    genResult,   \* how generateV2Review ended
    v2Review,    \* the Structured Review, NoReview (null) when there is none
    origin,      \* which path built v2Review: "none", "model", "fallback"
    post,        \* what postReviewResults posted, NotPosted before
    current,     \* the file of the pass of the loop just run, NoFile outside
    \* one call of a function of the parser, the classifier or the renderer
    call,        \* the function called and its argument, NoCall when none
    result,      \* what the call returned, NoResult before it returns
    lpc          \* position of the call: "idle", "called", "returned"

diffVars == <<oldDoc, newDoc, diff, dpc>>

reviewVars == <<rpc, configured, prBody, docType, changes, codeFiles, filesLeft,
                allFindings, aiResponse, genResult, v2Review, origin, post,
                current>>

libVars == <<call, result, lpc>>

vars == <<oldDoc, newDoc, diff, dpc, rpc, configured, prBody, docType, changes,
          codeFiles, filesLeft, allFindings, aiResponse, genResult, v2Review,
          origin, post, current, call, result, lpc>>

-----------------------------------------------------------------------------
(* Generic helpers *)

Min(a, b) == IF a < b THEN a ELSE b

Max(a, b) == IF a > b THEN a ELSE b

Range(s) == { s[i] : i \in DOMAIN s }

\* Array.prototype.slice(0, n)
Slice(s, n) == IF Len(s) <= n THEN s ELSE SubSeq(s, 1, n)

-----------------------------------------------------------------------------
(* Texts: a message, description or evidence is a sequence of characters, *)
(* each a one-character string; the backtick is written "backtick".       *)

LowerChars ==
    <<"a", "b", "c", "d", "e", "f", "g", "h", "i", "j", "k", "l", "m",
      "n", "o", "p", "q", "r", "s", "t", "u", "v", "w", "x", "y", "z">>

UpperChars ==
    <<"A", "B", "C", "D", "E", "F", "G", "H", "I", "J", "K", "L", "M",
      "N", "O", "P", "Q", "R", "S", "T", "U", "V", "W", "X", "Y", "Z">>

DigitChars == <<"0", "1", "2", "3", "4", "5", "6", "7", "8", "9">>

LowerSet == { LowerChars[i] : i \in DOMAIN LowerChars }

UpperSet == { UpperChars[i] : i \in DOMAIN UpperChars }

DigitSet == { DigitChars[i] : i \in DOMAIN DigitChars }

\* The lower-case letter of each upper-case letter
LowerOf ==
    [c \in UpperSet |->
        LowerChars[CHOOSE i \in DOMAIN UpperChars : UpperChars[i] = c]]

IsLower(c) == c \in LowerSet

IsDigit(c) == c \in DigitSet

\* White space
IsSpace(c) == c \in {" ", "\n", "\t"}

\* String.prototype.toLowerCase, one character
LowerChar(c) == IF c \in UpperSet THEN LowerOf[c] ELSE c

\* String.prototype.toLowerCase
toLowerCase(t) == [i \in DOMAIN t |-> LowerChar(t[i])]

\* String.prototype.includes
Includes(hay, needle) ==
    \E i \in 0..(Len(hay) - Len(needle)) :
        \A k \in 1..Len(needle) : hay[i + k] = needle[k]

\* String.prototype.slice(0, n)
TextSlice(t, n) == IF Len(t) <= n THEN t ELSE SubSeq(t, 1, n)

\* The first replace of normalizeTextForCompare: backticks are removed.
StripBackticks(t) == SelectSeq(t, LAMBDA c : c # "backtick")

\* The third replace of normalizeTextForCompare: every opening bracket
\* followed by one or more characters other than a closing bracket and by a
\* closing bracket is removed, scanning from the left.
RECURSIVE StripBracketedFrom(_, _)
StripBracketedFrom(t, i) ==
    IF i > Len(t) THEN <<>>
    ELSE IF t[i] = "["
         THEN LET closes == { j \in (i + 1)..Len(t) : t[j] = "]" }
              IN IF closes = {} THEN SubSeq(t, i, Len(t))
                 ELSE LET j == CHOOSE x \in closes : \A y \in closes : x <= y
                      IN IF j >= i + 2
                         THEN StripBracketedFrom(t, j + 1)
                         ELSE <<t[i]>> \o StripBracketedFrom(t, i + 1)
         ELSE <<t[i]>> \o StripBracketedFrom(t, i + 1)

StripBracketed(t) ==
    IF \A i \in DOMAIN t : t[i] # "[" THEN t ELSE StripBracketedFrom(t, 1)

\* Every character that is no lower-case letter, digit or white space
\* becomes a blank.
BlankPunctuation(t) ==
    [i \in DOMAIN t |->
        IF IsLower(t[i]) \/ IsDigit(t[i]) \/ IsSpace(t[i]) THEN t[i] ELSE " "]

\* Every run of white space becomes one blank.
CollapseSpaces(t) ==
    LET marked == [i \in DOMAIN t |->
                     IF IsSpace(t[i])
                     THEN IF i > 1 /\ IsSpace(t[i - 1]) THEN "" ELSE " "
                     ELSE t[i]]
    IN SelectSeq(marked, LAMBDA c : c # "")

\* String.prototype.trim
Trim(t) ==
    LET solid == { i \in DOMAIN t : ~IsSpace(t[i]) }
    IN IF solid = {} THEN <<>>
       ELSE SubSeq(t, CHOOSE i \in solid : \A j \in solid : i <= j,
                      CHOOSE i \in solid : \A j \in solid : i >= j)

normalizeTextForCompare(text) ==
    Trim(CollapseSpaces(BlankPunctuation(StripBracketed(StripBackticks(
        toLowerCase(text))))))

\* Categories of findings and risks, as texts
CatContent == <<"c", "o", "n", "t", "e", "n", "t">>
CatLink == <<"l", "i", "n", "k">>
CatCode == <<"c", "o", "d", "e">>
CatDocs == <<"d", "o", "c", "s">>
CatSecurity == <<"s", "e", "c", "u", "r", "i", "t", "y">>

-----------------------------------------------------------------------------
(* Risk normalisation before rendering: src/unnamed/part_003 lines 542-647 *)

\* \w of a regular expression
IsWordChar(c) == IsLower(c) \/ IsDigit(c) \/ c = "_" \/ (LowerChar(c) # c)

\* \b between the characters i and i + 1 of t (i = 0: before the first,
\* i = Len(t): after the last)
BoundaryAt(t, i) ==
    (i >= 1 /\ IsWordChar(t[i])) # (i < Len(t) /\ IsWordChar(t[i + 1]))

\* lit occupies the characters i + 1 .. i + Len(lit) of t
LitAt(t, i, lit) ==
    /\ i + Len(lit) <= Len(t)
    /\ \A k \in 1..Len(lit) : t[i + k] = lit[k]

StartsWith(t, lit) == LitAt(t, 0, lit)

MoveHints ==
    { <<"s", "e", "c", "t", "i", "o", "n", "(", "s", ")", " ", "r", "e", "m", "o", "v", "e", "d">>,
      <<"r", "e", "m", "o", "v", "e", "d", " ", "t", "h", "e", "n", " ", "r", "e", "-", "a", "d", "d", "e", "d">>,
      <<"r", "e", "o", "r", "g", "a", "n", "i", "z", "e", "d">>,
      <<"m", "o", "v", "e", "d">>,
      <<"r", "e", "n", "a", "m", "e", "d">>,
      <<"s", "e", "m", "a", "n", "t", "i", "c", " ", "d", "i", "f", "f", " ", "s", "h", "o", "w", "s">> }

RiskText(risk) == toLowerCase(risk.description \o <<" ">> \o risk.evidence)

\* isMoveReorderRisk without the test of the diff
isMoveReorderRiskAnyDiff(risk, stats) ==
    \E h \in MoveHints : Includes(RiskText(risk), h)

isMoveReorderRisk(risk, stats) ==
    LET hasHint == \E h \in MoveHints : Includes(RiskText(risk), h)
        diffSuggestsReorder == stats.moved > 0 /\ stats.added > 0 /\ stats.removed > 0
    IN hasHint /\ diffSuggestsReorder

GenericCategories ==
    { <<"s", "e", "c", "u", "r", "i", "t", "y">>,
      <<"p", "e", "r", "f", "o", "r", "m", "a", "n", "c", "e">>,
      <<"t", "e", "s", "t", "i", "n", "g">>,
      <<"b", "r", "e", "a", "k", "i", "n", "g">> }

EvidenceExtensions ==
    { <<"m", "d">>,
      <<"t", "s">>,
      <<"j", "s">>,
      <<"t", "s", "x">>,
      <<"j", "s", "x">>,
      <<"j", "s", "o", "n">>,
      <<"y", "m", "l">>,
      <<"y", "a", "m", "l">> }

\* A character of the class [a-z0-9_\-/] under the flag i
IsPathChar(c) ==
    IsLower(LowerChar(c)) \/ IsDigit(c) \/ c \in {"_", "-", "/"}

\* The first test of hasConcreteEvidence: a word boundary, one or more path
\* characters, a dot, one of the extensions, a word boundary.
HasFileWithExtension(evidence) ==
    \E i \in 0..Len(evidence), d \in 1..Len(evidence) :
        /\ i < d - 1
        /\ BoundaryAt(evidence, i)
        /\ \A k \in (i + 1)..(d - 1) : IsPathChar(evidence[k])
        /\ evidence[d] = "."
        /\ \E x \in EvidenceExtensions :
              /\ LitAt(evidence, d, x)
              /\ BoundaryAt(evidence, d + Len(x))

\* The second test: the word line between two word boundaries
HasLineWord(evidence) ==
    \E i \in 0..Len(evidence) :
        /\ LitAt(evidence, i, <<"l", "i", "n", "e">>)
        /\ BoundaryAt(evidence, i)
        /\ BoundaryAt(evidence, i + 4)

\* The third test: src/ after a word boundary
HasSrcPath(evidence) ==
    \E i \in 0..Len(evidence) :
        /\ LitAt(evidence, i, <<"s", "r", "c", "/">>)
        /\ BoundaryAt(evidence, i)

hasConcreteEvidence(evidence) ==
    HasFileWithExtension(evidence) \/ HasLineWord(evidence) \/ HasSrcPath(evidence)

OverlapWindow == 40

\* The overlap of a normalized description and a normalized message
Overlaps(msg, normalizedDesc) ==
    \/ Includes(msg, TextSlice(normalizedDesc,
                               Min(OverlapWindow, Len(normalizedDesc))))
    \/ Includes(normalizedDesc, TextSlice(msg, Min(OverlapWindow, Len(msg))))

\* isGenericSpeculativeRisk stopping after the test of the evidence
isGenericSpeculativeRiskByEvidence(risk, findings) ==
    /\ toLowerCase(risk.category) \in GenericCategories
    /\ ~hasConcreteEvidence(toLowerCase(risk.evidence))

isGenericSpeculativeRisk(risk, findings) ==
    LET desc == toLowerCase(risk.description)
        evidence == toLowerCase(risk.evidence)
        genericCategory == toLowerCase(risk.category) \in GenericCategories
        normalizedDesc == normalizeTextForCompare(desc)
        matchesFinding ==
            \E i \in DOMAIN findings :
                Overlaps(normalizeTextForCompare(findings[i].message), normalizedDesc)
    IN IF genericCategory /\ ~hasConcreteEvidence(evidence) THEN TRUE
       ELSE IF normalizedDesc = <<>> THEN TRUE
       ELSE ~matchesFinding /\ genericCategory

ReorderDescription ==
    <<"S", "e", "c", "t", "i", "o", "n", " ", "c", "h", "a", "n", "g", "e", "s", " ", "l", "o", "o", "k", " ", "l", "i", "k", "e", " ", "a", " ", "m", "o", "v", "e", "/", "r", "e", "o", "r", "d", "e", "r", " ", "r", "a", "t", "h", "e", "r", " ", "t", "h", "a", "n", " ", "d", "e", "s", "t", "r", "u", "c", "t", "i", "v", "e", " ", "r", "e", "m", "o", "v", "a", "l", ".">>

ReorderSuggestion == "Double-check headings and anchors, but treat as non-blocking documentation reorganization."

\* The map step of generateV2PRComment
ReclassifyRisk(risk, stats) ==
    IF isMoveReorderRisk(risk, stats)
    THEN [risk EXCEPT !.severity = "low",
                      !.category = CatDocs,
                      !.description = ReorderDescription,
                      !.suggestion = ReorderSuggestion]
    ELSE risk

\* keyRisks of generateV2PRComment: reclassified, then filtered
NormalizedRisks(keyRisks, stats, findings) ==
    SelectSeq([i \in DOMAIN keyRisks |-> ReclassifyRisk(keyRisks[i], stats)],
              LAMBDA r : ~isGenericSpeculativeRisk(r, findings))

\* the filter of renderedRisks keeping the last risk of each description
DedupeRisksKeepingLast(risks) ==
    LET norm(i) == normalizeTextForCompare(risks[i].description)
    IN SelectSeq([i \in DOMAIN risks |-> [at |-> i, risk |-> risks[i]]],
                 LAMBDA e : /\ norm(e.at) # <<>>
                            /\ \A j \in (e.at + 1)..Len(risks) : norm(j) # norm(e.at))

\* renderedRisks of generateV2PRComment: the first risk of each normalized
\* description, those with an empty one dropped
DedupeRisks(risks) ==
    LET norm(i) == normalizeTextForCompare(risks[i].description)
        keep == { i \in DOMAIN risks :
                    /\ norm(i) # <<>>
                    /\ \A j \in 1..(i - 1) : norm(j) # norm(i) }
        RECURSIVE pick(_)
        pick(i) == IF i > Len(risks) THEN <<>>
                   ELSE (IF i \in keep THEN <<risks[i]>> ELSE <<>>) \o pick(i + 1)
    IN pick(1)

renderedRisks(keyRisks, stats, findings) ==
    DedupeRisks(NormalizedRisks(keyRisks, stats, findings))

\* criticalFindings of generateV2PRComment: the error findings whose
\* normalized message is not empty and neither contains nor is contained in
\* the normalized description of a rendered risk, the first 3 of them
criticalFindings(findings, rendered) ==
    LET errors == SelectSeq(findings, LAMBDA f : f.type = "error")
        fresh(f) ==
            LET normalizedFinding == normalizeTextForCompare(f.message)
            IN /\ normalizedFinding # <<>>
               /\ \A i \in DOMAIN rendered :
                     LET normalizedRisk == normalizeTextForCompare(rendered[i].description)
                     IN ~(/\ normalizedRisk # <<>>
                          /\ \/ Includes(normalizedRisk, normalizedFinding)
                             \/ Includes(normalizedFinding, normalizedRisk))
    IN Slice(SelectSeq(errors, fresh), 3)

\* generateV2PRComment, by the lists it renders: the risks after the map
\* step, after the filter and after deduplication, and the findings of the
\* Critical Findings section (none when the section is left out)
generateV2PRComment(stats, findings, review) ==
    LET reclassified == [i \in DOMAIN review.keyRisks |->
                           ReclassifyRisk(review.keyRisks[i], stats)]
        rendered == renderedRisks(review.keyRisks, stats, findings)
        critical == criticalFindings(findings, rendered)
    IN [verdict |-> review.verdict.verdict,
        reclassified |-> reclassified,
        keyRisks |-> NormalizedRisks(review.keyRisks, stats, findings),
        renderedRisks |-> rendered,
        criticalFindings |-> IF review.verdict.verdict = "changes_requested"
                             THEN critical ELSE <<>>]

-----------------------------------------------------------------------------
(* Review synthesis: src/src/lib/ai.ts *)

\* ReviewFinding: file is the empty text and line is 0 when absent; the
\* suggestion is never set by the code that builds findings.
Finding(type, category, message, file, line) ==
    [type |-> type, category |-> category, message |-> message,
     file |-> file, line |-> line]

\* A narrative string built from a template and numbers
Narrative(text, args) == [text |-> text, args |-> args]

\* Number.prototype.toString of a natural number
RECURSIVE NumText(_)
NumText(n) ==
    IF n < 10 THEN <<DigitChars[n + 1]>>
    ELSE NumText(n \div 10) \o <<DigitChars[(n % 10) + 1]>>

Risk(severity, category, description, evidence, suggestion) ==
    [severity |-> severity, category |-> category, description |-> description,
     evidence |-> evidence, suggestion |-> suggestion]

\* null
NoReview == [none |-> TRUE]

Verdict(verdict, confidence, summary) ==
    [verdict |-> verdict, confidence |-> confidence, summary |-> summary]

ValidVerdicts == {"approved", "changes_requested", "commented"}

\* A JSON value read as a confidence: tag t is the typeof, n the number in
\* hundredths
JsUndefined == [t |-> "undefined", n |-> 0]
JsNull == [t |-> "null", n |-> 0]
JsString == [t |-> "string", n |-> 0]
JsNumber(n) == [t |-> "number", n |-> n]

\* The cap of a confidence without strong evidence, 0.82
CapMild == 82
\* The cap of a confidence with strong evidence, 0.92
CapStrong == 92
\* The raw confidence above which strong evidence counts, 0.85
StrongFrom == 85
\* The defaults of a missing verdict value and a missing confidence
DefaultVerdict == "commented"
DefaultConfidence == 50

\* x || d on a string
OrElse(x, d) == IF x = "" \/ x = "<undefined>" THEN d ELSE x

\* x ?? d on a confidence
Coalesce(x, d) == IF x.t \in {"undefined", "null"} THEN JsNumber(d) ELSE x

\* The checks of parseV2Response on the verdict value and the confidence
FieldsValid(verdict, rawConfidence) ==
    /\ verdict \in ValidVerdicts
    /\ rawConfidence.t = "number"
    /\ ~(rawConfidence.n < 0 \/ rawConfidence.n > 100)

\* calibratedConfidence, normalizedConfidence and finalConfidence
CalibrateUncapped(verdict, raw, hasConsistentFindings) == raw

CalibrateInclusive(verdict, raw, hasConsistentFindings) ==
    LET calibrated == IF hasConsistentFindings /\ raw >= StrongFrom
                      THEN Min(raw, CapStrong)
                      ELSE Min(raw, CapMild)
        normalized == Max(0, Min(100, calibrated))
    IN IF verdict = "approved" THEN Min(normalized, CapMild) ELSE normalized

Calibrate(verdict, raw, hasConsistentFindings) ==
    LET calibrated == IF hasConsistentFindings /\ raw > StrongFrom
                      THEN Min(raw, CapStrong)
                      ELSE Min(raw, CapMild)
        normalized == Max(0, Min(100, calibrated))
    IN IF verdict = "approved" THEN Min(normalized, CapMild) ELSE normalized

\* The response: shape "none" has no brace-delimited span, "malformed" has one
\* that JSON.parse rejects, "object" parses to the fields given.
parseV2Response(response) ==
    IF response.shape # "object" THEN NoReview
    ELSE IF \/ response.prIntent \in {"", "<undefined>"}
            \/ response.changeOverview \in {"", "<undefined>"}
            \/ ~response.verdict.present
         THEN NoReview
    ELSE LET verdict == OrElse(response.verdict.verdict, DefaultVerdict)
             rawConfidence == Coalesce(response.verdict.confidence,
                                       DefaultConfidence)
         IN IF ~FieldsValid(verdict, rawConfidence) THEN NoReview
            \* keyRisks?.filter on a value that is no array throws
            ELSE IF response.keyRisks.t = "object" THEN NoReview
            ELSE LET risks == IF response.keyRisks.t = "array"
                              THEN response.keyRisks.items ELSE <<>>
                     errors == SelectSeq(risks, LAMBDA r : r.severity = "high")
                 IN [prIntent |-> Narrative(response.prIntent, <<>>),
                     changeOverview |-> Narrative(response.changeOverview, <<>>),
                     keyRisks |-> risks,
                     checklist |-> response.checklist,
                     sections |-> response.sections,
                     verdict |-> Verdict(verdict,
                                   Calibrate(verdict, rawConfidence.n, Len(errors) > 0),
                                   Narrative(OrElse(response.verdict.summary, ""), <<>>))]

\* The verdict rule of generateDeterministicFallback: verdict, raw
\* confidence and summary from the numbers of errors and warnings
FallbackVerdictErrorsOnly(nErrors, nWarnings) ==
    IF nErrors > 0
    THEN Verdict("changes_requested", 95,
                 Narrative("error(s) must be addressed before merging.", <<nErrors>>))
    ELSE Verdict("approved", 90,
                 Narrative("No critical issues detected in documentation changes.", <<>>))

FallbackVerdict(nErrors, nWarnings) ==
    IF nErrors > 0
    THEN Verdict("changes_requested", 95,
                 Narrative("error(s) must be addressed before merging.", <<nErrors>>))
    ELSE IF nWarnings > 3
    THEN Verdict("commented", 70,
                 Narrative("warnings should be reviewed.", <<nWarnings>>))
    ELSE IF nWarnings > 0
    THEN Verdict("approved", 80,
                 Narrative("warning(s) noted but not blocking.", <<nWarnings>>))
    ELSE Verdict("approved", 90,
                 Narrative("No critical issues detected in documentation changes.", <<>>))

\* The confidence calibration of generateDeterministicFallback; nCodeFiles is
\* the number of code files, -1 when the argument is undefined
FallbackConfidence(verdict, raw, nErrors, nWarnings, nCodeFiles) ==
    LET isDocsOnly == nCodeFiles = 0
        hasMildWarnings == nWarnings > 0 /\ nErrors = 0
        calibrated == IF isDocsOnly /\ hasMildWarnings THEN Min(raw, 75)
                      ELSE IF hasMildWarnings THEN Min(raw, CapMild)
                      ELSE IF nErrors > 0 THEN Min(raw, CapStrong)
                      ELSE raw
    IN IF verdict = "approved" THEN Min(calibrated, CapMild) ELSE calibrated

\* message.slice(0, 200)
DescriptionLimit == 200

\* The evidence of a fallback risk
FallbackEvidence(f) ==
    IF f.file # <<>>
    THEN <<"F", "i", "l", "e", ":", " ">> \o f.file
         \o (IF f.line # 0 THEN <<":">> \o NumText(f.line) ELSE <<>>)
    ELSE <<"G", "e", "n", "e", "r", "a", "l">>

\* keyRisks of generateDeterministicFallback without the two slices
FallbackRisksOfAll(errors, warnings) ==
    [i \in DOMAIN errors |->
        Risk("high", errors[i].category,
             TextSlice(errors[i].message, DescriptionLimit),
             FallbackEvidence(errors[i]), "Fix the error before merging.")]
    \o
    [i \in DOMAIN warnings |->
        Risk("medium", warnings[i].category,
             TextSlice(warnings[i].message, DescriptionLimit),
             FallbackEvidence(warnings[i]), "Consider addressing this warning.")]

FallbackRisks(errors, warnings) ==
    [i \in 1..Min(3, Len(errors)) |->
        Risk("high", errors[i].category,
             TextSlice(errors[i].message, DescriptionLimit),
             FallbackEvidence(errors[i]), "Fix the error before merging.")]
    \o
    [i \in 1..Min(2, Len(warnings)) |->
        Risk("medium", warnings[i].category,
             TextSlice(warnings[i].message, DescriptionLimit),
             FallbackEvidence(warnings[i]), "Consider addressing this warning.")]

Item(category, item, priority) ==
    [category |-> category, item |-> item, priority |-> priority]

FallbackChecklist(type, stats) ==
    (CASE type = "sop" ->
            <<Item("docs", <<"S", "O", "P", " ", "i", "n", "c", "l", "u", "d", "e", "s", " ", "c", "l", "e", "a", "r", " ", "s", "t", "e", "p", "-", "b", "y", "-", "s", "t", "e", "p", " ", "i", "n", "s", "t", "r", "u", "c", "t", "i", "o", "n", "s">>, "required"),
              Item("docs", <<"P", "r", "e", "r", "e", "q", "u", "i", "s", "i", "t", "e", "s", " ", "a", "r", "e", " ", "d", "o", "c", "u", "m", "e", "n", "t", "e", "d">>, "required"),
              Item("testing", <<"P", "r", "o", "c", "e", "s", "s", " ", "h", "a", "s", " ", "b", "e", "e", "n", " ", "t", "e", "s", "t", "e", "d", " ", "s", "u", "c", "c", "e", "s", "s", "f", "u", "l", "l", "y">>, "recommended")>>
       [] type = "readme" ->
            <<Item("docs", <<"R", "E", "A", "D", "M", "E", " ", "i", "n", "c", "l", "u", "d", "e", "s", " ", "i", "n", "s", "t", "a", "l", "l", "a", "t", "i", "o", "n", " ", "i", "n", "s", "t", "r", "u", "c", "t", "i", "o", "n", "s">>, "required"),
              Item("docs", <<"R", "E", "A", "D", "M", "E", " ", "i", "n", "c", "l", "u", "d", "e", "s", " ", "u", "s", "a", "g", "e", " ", "e", "x", "a", "m", "p", "l", "e", "s">>, "required")>>
       [] type = "api" ->
            <<Item("docs", <<"A", "P", "I", " ", "e", "n", "d", "p", "o", "i", "n", "t", "s", " ", "h", "a", "v", "e", " ", "c", "l", "e", "a", "r", " ", "d", "e", "s", "c", "r", "i", "p", "t", "i", "o", "n", "s">>, "required"),
              Item("docs", <<"R", "e", "q", "u", "e", "s", "t", "/", "r", "e", "s", "p", "o", "n", "s", "e", " ", "f", "o", "r", "m", "a", "t", "s", " ", "a", "r", "e", " ", "d", "o", "c", "u", "m", "e", "n", "t", "e", "d">>, "required")>>
       [] OTHER -> <<>>)
    \o (IF stats.added > 0
        THEN <<Item("docs", <<"N", "e", "w", " ", "s", "e", "c", "t", "i", "o", "n", "s", " ", "h", "a", "v", "e", " ", "c", "l", "e", "a", "r", " ", "h", "e", "a", "d", "i", "n", "g", "s">>, "recommended")>>
        ELSE <<>>)
    \o (IF stats.removed > 0
        THEN <<Item("docs", <<"R", "e", "m", "o", "v", "e", "d", " ", "c", "o", "n", "t", "e", "n", "t", " ", "i", "s", " ", "r", "e", "f", "l", "e", "c", "t", "e", "d", " ", "i", "n", " ", "n", "a", "v", "i", "g", "a", "t", "i", "o", "n", "/", "i", "n", "d", "e", "x">>,
                    "recommended")>>
        ELSE <<>>)
    \o (IF stats.modified > 0
        THEN <<Item("docs", <<"M", "o", "d", "i", "f", "i", "e", "d", " ", "s", "e", "c", "t", "i", "o", "n", "s", " ", "a", "r", "e", " ", "c", "o", "n", "s", "i", "s", "t", "e", "n", "t", " ", "w", "i", "t", "h", " ", "r", "e", "s", "t", " ", "o", "f", " ", "d", "o", "c">>,
                    "recommended")>>
        ELSE <<>>)

\* body is the pull request's description ("" when there is none)
generateDeterministicFallback(body, type, stats, findings, nCodeFiles) ==
    LET errors == SelectSeq(findings, LAMBDA f : f.type = "error")
        warnings == SelectSeq(findings, LAMBDA f : f.type = "warning")
        v == FallbackVerdict(Len(errors), Len(warnings))
    IN [prIntent |-> IF body # "" THEN Narrative(body, <<>>)
                     ELSE Narrative("Update documentation with section change(s).",
                                    <<type, stats.added + stats.modified>>),
        changeOverview |-> Narrative("section(s) added, removed, modified. error(s), warning(s) found.",
                                     <<stats.added, stats.removed, stats.modified,
                                       Len(errors), Len(warnings)>>),
        keyRisks |-> FallbackRisks(errors, warnings),
        checklist |-> Slice(FallbackChecklist(type, stats), 8),
        sections |-> 0,
        verdict |-> Verdict(v.verdict,
                      FallbackConfidence(v.verdict, v.confidence, Len(errors),
                                         Len(warnings), nCodeFiles),
                      v.summary)]

-----------------------------------------------------------------------------
(* Posting: src/unnamed/part_003 lines 17-42 and 392-523 *)

\* t starts with prefix, one or more digits and suffix
StartsWithNumbered(t, prefix, suffix) ==
    /\ StartsWith(t, prefix)
    /\ \E e \in (Len(prefix) + 1)..Len(t) :
          /\ \A k \in (Len(prefix) + 1)..e : IsDigit(t[k])
          /\ LitAt(t, e, suffix)

lowValuePatterns(message) ==
    \/ StartsWith(message, <<"C", "o", "d", "e", " ", "c", "h", "a", "n", "g", "e", "s", ":">>)
    \/ StartsWith(message, <<"N", "e", "w", " ", "d", "o", "c", "u", "m", "e", "n", "t", ":">>)
    \/ StartsWithNumbered(message, <<"D", "o", "c", "u", "m", "e", "n", "t", " ", "h", "a", "s", " ">>, <<" ", "t", "a", "b", "l", "e">>)
    \/ StartsWithNumbered(message, <<"D", "o", "c", "u", "m", "e", "n", "t", " ", "h", "a", "s", " ">>, <<" ", "c", "o", "d", "e", " ", "b", "l", "o", "c", "k">>)
    \/ StartsWith(message, <<"T", "a", "b", "l", "e", " ", "c", "o", "u", "n", "t", " ", "c", "h", "a", "n", "g", "e", "d">>)
    \/ StartsWithNumbered(message, <<"+">>, <<" ", "a", "d", "d", "e", "d">>)
    \/ StartsWith(message, <<"P", "r", "o", "c", "e", "s", "s", " ", "h", "a", "s", " ", "b", "e", "e", "n", " ", "t", "e", "s", "t", "e", "d">>)
    \/ StartsWith(message, <<"S", "O", "P", " ", "i", "n", "c", "l", "u", "d", "e", "s", " ", "c", "l", "e", "a", "r", " ", "s", "t", "e", "p", "-", "b", "y", "-", "s", "t", "e", "p">>)
    \/ StartsWith(message, <<"R", "E", "A", "D", "M", "E", " ", "i", "n", "c", "l", "u", "d", "e", "s">>)

MaxPostedFindings == 20

MinContentInfoLength == 50

filterHighSignalFindings(findings) ==
    Slice(SelectSeq(findings, LAMBDA f :
            IF f.type = "error" \/ f.type = "warning" THEN TRUE
            ELSE IF lowValuePatterns(f.message) THEN FALSE
            ELSE f.category # CatContent \/ Len(f.message) > MinContentInfoLength),
          MaxPostedFindings)

\* The fixed mapping of a verdict to a check conclusion
ConclusionOf(verdict) ==
    IF verdict = "approved" THEN "success"
    ELSE IF verdict = "changes_requested" THEN "failure"
    ELSE "neutral"

\* Verdict and conclusion before the guardrail
InitialVerdict(review, findings) ==
    IF review # NoReview
    THEN [verdict |-> review.verdict.verdict,
          conclusion |-> ConclusionOf(review.verdict.verdict)]
    ELSE LET errors == SelectSeq(findings, LAMBDA f : f.type = "error")
             warnings == SelectSeq(findings, LAMBDA f : f.type = "warning")
         IN IF Len(errors) > 0
            THEN [verdict |-> "changes_requested", conclusion |-> "failure"]
            ELSE IF Len(warnings) > 2
            THEN [verdict |-> "commented", conclusion |-> "neutral"]
            ELSE [verdict |-> "approved", conclusion |-> "success"]

NonBlockingSummary ==
    Narrative("Non-blocking review feedback only; no high-severity issues detected.",
              <<>>)

\* The guardrail also resetting the confidence of a review it downgrades
GuardrailResettingConfidence(review, findings) ==
    LET v == InitialVerdict(review, findings)
        hasErrorFindings == \E i \in DOMAIN findings : findings[i].type = "error"
        hasHighRisk == review # NoReview /\
                         \E i \in DOMAIN review.keyRisks :
                            review.keyRisks[i].severity = "high"
    IN IF v.verdict = "changes_requested" /\ ~hasErrorFindings /\ ~hasHighRisk
       THEN [verdict |-> "commented", conclusion |-> "neutral",
             review |-> IF review # NoReview
                        THEN [review EXCEPT !.verdict.verdict = "commented",
                                            !.verdict.summary = NonBlockingSummary,
                                            !.verdict.confidence = 50]
                        ELSE review]
       ELSE [verdict |-> v.verdict, conclusion |-> v.conclusion, review |-> review]

\* The guardrail of postReviewResults: verdict, conclusion and the review
\* after it
GuardrailKeepsConclusion(review, findings) ==
    LET v == InitialVerdict(review, findings)
        hasErrorFindings == \E i \in DOMAIN findings : findings[i].type = "error"
        hasHighRisk == review # NoReview /\
                         \E i \in DOMAIN review.keyRisks :
                            review.keyRisks[i].severity = "high"
    IN IF v.verdict = "changes_requested" /\ ~hasErrorFindings /\ ~hasHighRisk
       THEN [verdict |-> "commented", conclusion |-> v.conclusion,
             review |-> IF review # NoReview
                        THEN [review EXCEPT !.verdict.verdict = "commented",
                                            !.verdict.summary = NonBlockingSummary]
                        ELSE review]
       ELSE [verdict |-> v.verdict, conclusion |-> v.conclusion, review |-> review]

Guardrail(review, findings) ==
    LET v == InitialVerdict(review, findings)
        hasErrorFindings == \E i \in DOMAIN findings : findings[i].type = "error"
        hasHighRisk == review # NoReview /\
                         \E i \in DOMAIN review.keyRisks :
                            review.keyRisks[i].severity = "high"
    IN IF v.verdict = "changes_requested" /\ ~hasErrorFindings /\ ~hasHighRisk
       THEN [verdict |-> "commented", conclusion |-> "neutral",
             review |-> IF review # NoReview
                        THEN [review EXCEPT !.verdict.verdict = "commented",
                                            !.verdict.summary = NonBlockingSummary]
                        ELSE review]
       ELSE [verdict |-> v.verdict, conclusion |-> v.conclusion, review |-> review]

NotPosted == [none |-> TRUE]

\* What postReviewResults sends: the check run (conclusion, the verdict in
\* its title), the comment (the v2 format with its rendered risks, or the
\* legacy format) and the pull-request description when it is replaced
postReviewResults(review, findings, stats, prDescription, body) ==
    LET g == Guardrail(review, findings)
    IN [verdict |-> g.verdict,
        conclusion |-> g.conclusion,
        title |-> g.verdict,
        review |-> g.review,
        comment |-> IF g.review # NoReview THEN "v2" ELSE "legacy",
        risks |-> IF g.review # NoReview
                  THEN renderedRisks(g.review.keyRisks, stats, findings)
                  ELSE <<>>,
        findings |-> findings,
        prUpdated |-> prDescription /\ body = ""]

-----------------------------------------------------------------------------
(* Semantic diff engine: src/unnamed/part_004 lines 349-461 *)

\* String.prototype.toLowerCase on the words of the model's vocabulary.
ToLowerCase(w) ==
    CASE w = "The" -> "the"
      [] OTHER     -> w

\* new Map(doc.sections.map(s => [s.path, s])): one entry per path, at the
\* position of the path's first occurrence, holding its last occurrence.
SectionMap(sections) ==
    LET first(i) == \A j \in 1..(i - 1) : sections[j].path # sections[i].path
        lastOf(p) == CHOOSE i \in DOMAIN sections :
                        /\ sections[i].path = p
                        /\ \A j \in (i + 1)..Len(sections) : sections[j].path # p
        RECURSIVE build(_)
        build(i) ==
            IF i > Len(sections) THEN <<>>
            ELSE IF first(i)
                 THEN <<sections[lastOf(sections[i].path)]>> \o build(i + 1)
                 ELSE build(i + 1)
    IN build(1)

\* Map.prototype.has
MapHas(map, path) == \E i \in DOMAIN map : map[i].path = path

\* Map.prototype.get (only used where MapHas holds)
MapGet(map, path) == map[CHOOSE i \in DOMAIN map : map[i].path = path]

\* new Set(a.toLowerCase().split(/\s+/))
WordSet(content) == { ToLowerCase(content[i]) : i \in DOMAIN content }

\* similarity > 0.8, with similarity = |A \cap B| / |A \cup B|; 0 when either
\* string is empty.
SimilarityAbove(a, b, num, den) ==
    IF a = <<>> \/ b = <<>> THEN FALSE
    ELSE LET wa == WordSet(a)
             wb == WordSet(b)
         IN Cardinality(wa \cap wb) * den > num * Cardinality(wa \cup wb)

MoveThresholdNum == 4
MoveThresholdDen == 5

\* similarity > 0.6
computeSimilarityAboveLowerThreshold(a, b) == SimilarityAbove(a, b, 3, 5)

computeSimilarityAboveThreshold(a, b) ==
    SimilarityAbove(a, b, MoveThresholdNum, MoveThresholdDen)

NoSection == [path |-> "", heading |-> "", content |-> <<>>, none |-> TRUE]

\* First section of the other map with another path, whatever its content
findMovedSectionIgnoringContent(section, otherSections) ==
    LET hits == { i \in DOMAIN otherSections :
                    otherSections[i].path # section.path }
    IN IF hits = {} THEN NoSection
       ELSE otherSections[CHOOSE i \in hits : \A j \in hits : i <= j]

\* First section of the other map, in map order, with another path and a
\* similarity above the threshold; NoSection (null) when there is none.
findMovedSection(section, otherSections) ==
    LET hits == { i \in DOMAIN otherSections :
                    /\ otherSections[i].path # section.path
                    /\ computeSimilarityAboveThreshold(section.content,
                                                       otherSections[i].content) }
    IN IF hits = {} THEN NoSection
       ELSE otherSections[CHOOSE i \in hits : \A j \in hits : i <= j]

\* oldSection.content !== newSection.content
ContentChangedByIdentity(o, n) == TRUE

ContentChanged(o, n) == o.content # n.content

Change(type, oldPath, newPath, oldHeading, newHeading) ==
    [type |-> type, oldPath |-> oldPath, newPath |-> newPath,
     oldHeading |-> oldHeading, newHeading |-> newHeading]

\* Absent optional field of a SectionChange
Undef == "<undefined>"

CountType(recs, t) == Cardinality({ i \in DOMAIN recs : recs[i].type = t })

StatsOf(recs) ==
    [added    |-> CountType(recs, "added"),
     removed  |-> CountType(recs, "removed"),
     modified |-> CountType(recs, "modified"),
     moved    |-> CountType(recs, "moved")]

computeSemanticDiff(oldSecs, newSecs) ==
    LET oldSections == SectionMap(oldSecs)
        newSections == SectionMap(newSecs)
        RECURSIVE addedLoop(_)
        addedLoop(i) ==
            IF i > Len(newSections) THEN <<>>
            ELSE (IF ~MapHas(oldSections, newSections[i].path)
                  THEN <<Change("added", Undef, newSections[i].path,
                                Undef, newSections[i].heading)>>
                  ELSE <<>>) \o addedLoop(i + 1)
        RECURSIVE removedLoop(_)
        removedLoop(i) ==
            IF i > Len(oldSections) THEN <<>>
            ELSE (IF ~MapHas(newSections, oldSections[i].path)
                  THEN <<Change("removed", oldSections[i].path, Undef,
                                oldSections[i].heading, Undef)>>
                  ELSE <<>>) \o removedLoop(i + 1)
        RECURSIVE modifiedLoop(_)
        modifiedLoop(i) ==
            IF i > Len(oldSections) THEN <<>>
            ELSE LET o == oldSections[i]
                 IN (IF MapHas(newSections, o.path)
                     THEN LET n == MapGet(newSections, o.path)
                          IN IF ContentChanged(o, n)
                             THEN <<Change("modified", o.path, o.path,
                                           o.heading, n.heading)>>
                             ELSE <<>>
                     ELSE LET movedTo == findMovedSection(o, newSections)
                          IN IF movedTo # NoSection
                             THEN <<Change("moved", o.path, movedTo.path,
                                           o.heading, movedTo.heading)>>
                             ELSE <<>>) \o modifiedLoop(i + 1)
        recs == addedLoop(1) \o removedLoop(1) \o modifiedLoop(1)
    IN [sections |-> recs, stats |-> StatsOf(recs)]

-----------------------------------------------------------------------------
(* Inputs of the diff engine *)

MaxSections == 2

Sec(path, heading, content) ==
    [path |-> path, heading |-> heading, content |-> content]

\* Paths as parseMarkdown builds them: slug chains.
PathPool == {"intro", "setup", "intro/setup"}

HeadingOf(path) ==
    CASE path = "intro"       -> "Intro"
      [] path = "setup"       -> "Setup"
      [] path = "intro/setup" -> "Setup"
      [] OTHER                -> path

\* The empty content, two contents of similarity 5/6, and a reordering of
\* the second in another case (similarity 1, another string).
ContentPool ==
    { <<>>,
      <<"the", "quick", "brown", "fox", "jumps", "high">>,
      <<"the", "quick", "brown", "fox", "jumps">>,
      <<"quick", "The", "brown", "fox", "jumps">> }

SectionPool == { Sec(p, HeadingOf(p), c) : p \in PathPool, c \in ContentPool }

DocPool == UNION { [1..n -> SectionPool] : n \in 0..MaxSections }

NoDiff == [sections |-> <<>>, stats |-> StatsOf(<<>>), none |-> TRUE]

DiffIdle == /\ oldDoc = <<>> /\ newDoc = <<>> /\ diff = NoDiff /\ dpc = "idle"

NoCall == [fn |-> "none"]

NoResult == [none |-> TRUE]

LibIdle == /\ call = NoCall /\ result = NoResult /\ lpc = "idle"

\* No answer of the model backend
NoAnswer == [shape |-> "absent"]

\* generateV2Review has not been called
NotCalled == [status |-> "not called", value |-> NoReview]

\* No file: before the loop over the Markdown files and after it
NoFile == [none |-> TRUE]

ReviewIdle ==
    /\ rpc = "idle"
    /\ configured = FALSE
    /\ prBody = ""
    /\ docType = "null"
    /\ changes = <<>>
    /\ codeFiles = 0
    /\ filesLeft = 0
    /\ allFindings = <<>>
    /\ aiResponse = NoAnswer
    /\ genResult = NotCalled
    /\ v2Review = NoReview
    /\ origin = "none"
    /\ post = NotPosted
    /\ current = NoFile

\* Contents for the three-section documents: two of similarity 5/6 and one
\* sharing a single word with them
OutlineContents ==
    { <<"the", "quick", "brown", "fox", "jumps", "high">>,
      <<"the", "quick", "brown", "fox", "jumps">>,
      <<"install", "the", "package", "with", "npm">> }

\* A document with the sections intro, setup, faq against a document with
\* the sections intro, faq
OutlinePairs ==
    { << <<Sec("intro", "Intro", ci), Sec("setup", "Setup", cs),
           Sec("faq", "FAQ", cf)>>,
         <<Sec("intro", "Intro", ni), Sec("faq", "FAQ", nf)>> >> :
        ci \in OutlineContents, cs \in OutlineContents, cf \in OutlineContents,
        ni \in OutlineContents, nf \in OutlineContents }

\* Contents differing in their last word
FoxContents ==
    { <<"The", "quick", "brown", "fox", "jumps">>,
      <<"The", "quick", "brown", "fox", "leaps">> }

\* One section at path a/b against one section at path x/y
RelocationPairs ==
    { << <<Sec("a/b", "B", co)>>, <<Sec("x/y", "Y", cn)>> >> :
        co \in FoxContents, cn \in FoxContents }

InitDiff ==
    /\ \/ oldDoc \in DocPool /\ newDoc \in DocPool
       \/ \E pair \in OutlinePairs \cup RelocationPairs :
              oldDoc = pair[1] /\ newDoc = pair[2]
    /\ diff = NoDiff
    /\ dpc = "ready"
    /\ ReviewIdle
    /\ LibIdle

ComputeDiff ==
    /\ dpc = "ready"
    /\ diff' = computeSemanticDiff(oldDoc, newDoc)
    /\ dpc' = "done"
    /\ UNCHANGED <<oldDoc, newDoc>>
    /\ UNCHANGED reviewVars
    /\ UNCHANGED libVars

NextDiff == ComputeDiff

SpecDiff == InitDiff /\ [][NextDiff]_vars


-----------------------------------------------------------------------------
(* Checklist and link validation: src/unnamed/part_004 lines 609-746 *)

\* Emoji are written by their UTF-16 code units, one character each.
FixedChecklist(type) ==
    CASE type = "sop" ->
            <<<<"U+2705", " ", "V", "e", "r", "i", "f", "y", " ", "a", "l", "l", " ", "p", "r", "e", "r", "e", "q", "u", "i", "s", "i", "t", "e", "s", " ", "a", "r", "e", " ", "l", "i", "s", "t", "e", "d">>,
              <<"U+2705", " ", "C", "h", "e", "c", "k", " ", "s", "t", "e", "p", " ", "o", "r", "d", "e", "r", " ", "i", "s", " ", "l", "o", "g", "i", "c", "a", "l">>,
              <<"U+2705", " ", "E", "n", "s", "u", "r", "e", " ", "e", "a", "c", "h", " ", "s", "t", "e", "p", " ", "h", "a", "s", " ", "c", "l", "e", "a", "r", " ", "s", "u", "c", "c", "e", "s", "s", " ", "c", "r", "i", "t", "e", "r", "i", "a">>,
              <<"U+2705", " ", "A", "d", "d", " ", "t", "r", "o", "u", "b", "l", "e", "s", "h", "o", "o", "t", "i", "n", "g", " ", "t", "i", "p", "s", " ", "f", "o", "r", " ", "c", "o", "m", "m", "o", "n", " ", "f", "a", "i", "l", "u", "r", "e", "s">>>>
      [] type = "adr" ->
            <<<<"U+2705", " ", "C", "o", "n", "f", "i", "r", "m", " ", "c", "o", "n", "t", "e", "x", "t", " ", "i", "s", " ", "u", "p", " ", "t", "o", " ", "d", "a", "t", "e">>,
              <<"U+2705", " ", "V", "e", "r", "i", "f", "y", " ", "d", "e", "c", "i", "s", "i", "o", "n", " ", "r", "a", "t", "i", "o", "n", "a", "l", "e", " ", "i", "s", " ", "c", "o", "m", "p", "l", "e", "t", "e">>,
              <<"U+2705", " ", "C", "h", "e", "c", "k", " ", "s", "t", "a", "t", "u", "s", " ", "(", "p", "r", "o", "p", "o", "s", "e", "d", "/", "a", "c", "c", "e", "p", "t", "e", "d", "/", "d", "e", "p", "r", "e", "c", "a", "t", "e", "d", ")", " ", "i", "s", " ", "c", "o", "r", "r", "e", "c", "t">>,
              <<"U+2705", " ", "N", "o", "t", "e", " ", "a", "n", "y", " ", "s", "u", "p", "e", "r", "s", "e", "d", "e", "d", " ", "A", "D", "R", "s">>,
              <<"U+2705", " ", "R", "e", "v", "i", "e", "w", " ", "a", "l", "t", "e", "r", "n", "a", "t", "i", "v", "e", "s", " ", "c", "o", "n", "s", "i", "d", "e", "r", "e", "d">>>>
      [] type = "runbook" ->
            <<<<"U+2705", " ", "V", "e", "r", "i", "f", "y", " ", "a", "l", "e", "r", "t", " ", "t", "h", "r", "e", "s", "h", "o", "l", "d", "s", " ", "a", "r", "e", " ", "c", "u", "r", "r", "e", "n", "t">>,
              <<"U+2705", " ", "C", "h", "e", "c", "k", " ", "e", "s", "c", "a", "l", "a", "t", "i", "o", "n", " ", "c", "o", "n", "t", "a", "c", "t", "s", " ", "a", "r", "e", " ", "v", "a", "l", "i", "d">>,
              <<"U+2705", " ", "E", "n", "s", "u", "r", "e", " ", "r", "o", "l", "l", "b", "a", "c", "k", " ", "s", "t", "e", "p", "s", " ", "a", "r", "e", " ", "d", "o", "c", "u", "m", "e", "n", "t", "e", "d">>,
              <<"U+2705", " ", "A", "d", "d", " ", "e", "s", "t", "i", "m", "a", "t", "e", "d", " ", "t", "i", "m", "e", " ", "t", "o", " ", "c", "o", "m", "p", "l", "e", "t", "e", " ", "e", "a", "c", "h", " ", "s", "t", "e", "p">>,
              <<"U+2705", " ", "V", "e", "r", "i", "f", "y", " ", "m", "o", "n", "i", "t", "o", "r", "i", "n", "g", "/", "a", "l", "e", "r", "t", " ", "l", "i", "n", "k", "s", " ", "w", "o", "r", "k">>>>
      [] type = "pricing" ->
            <<<<"U+2705", " ", "V", "e", "r", "i", "f", "y", " ", "a", "l", "l", " ", "p", "r", "i", "c", "e", "s", " ", "m", "a", "t", "c", "h", " ", "c", "u", "r", "r", "e", "n", "t", " ", "p", "l", "a", "n", "s">>,
              <<"U+2705", " ", "C", "h", "e", "c", "k", " ", "f", "e", "a", "t", "u", "r", "e", " ", "l", "i", "s", "t", "s", " ", "a", "r", "e", " ", "a", "c", "c", "u", "r", "a", "t", "e">>,
              <<"U+2705", " ", "C", "o", "n", "f", "i", "r", "m", " ", "p", "r", "o", "m", "o", "/", "d", "i", "s", "c", "o", "u", "n", "t", " ", "t", "e", "r", "m", "s", " ", "a", "r", "e", " ", "v", "a", "l", "i", "d">>,
              <<"U+2705", " ", "U", "p", "d", "a", "t", "e", " ", "A", "P", "I", " ", "r", "a", "t", "e", " ", "l", "i", "m", "i", "t", "s", " ", "i", "f", " ", "c", "h", "a", "n", "g", "e", "d">>,
              <<"U+2705", " ", "R", "e", "v", "i", "e", "w", " ", "l", "i", "m", "i", "t", "s", "/", "q", "u", "o", "t", "a", "s", " ", "a", "r", "e", " ", "c", "u", "r", "r", "e", "n", "t">>>>
      [] type = "readme" ->
            <<<<"U+2705", " ", "V", "e", "r", "i", "f", "y", " ", "i", "n", "s", "t", "a", "l", "l", "a", "t", "i", "o", "n", " ", "s", "t", "e", "p", "s", " ", "w", "o", "r", "k">>,
              <<"U+2705", " ", "C", "h", "e", "c", "k", " ", "A", "P", "I", " ", "e", "x", "a", "m", "p", "l", "e", "s", " ", "a", "r", "e", " ", "c", "o", "r", "r", "e", "c", "t">>,
              <<"U+2705", " ", "U", "p", "d", "a", "t", "e", " ", "d", "e", "p", "e", "n", "d", "e", "n", "c", "i", "e", "s", " ", "v", "e", "r", "s", "i", "o", "n", "s">>,
              <<"U+2705", " ", "C", "o", "n", "f", "i", "r", "m", " ", "l", "i", "c", "e", "n", "s", "e", " ", "i", "s", " ", "c", "u", "r", "r", "e", "n", "t">>>>
      [] type = "api" ->
            <<<<"U+2705", " ", "V", "e", "r", "i", "f", "y", " ", "a", "l", "l", " ", "e", "n", "d", "p", "o", "i", "n", "t", "s", " ", "d", "o", "c", "u", "m", "e", "n", "t", "e", "d">>,
              <<"U+2705", " ", "C", "h", "e", "c", "k", " ", "a", "u", "t", "h", "e", "n", "t", "i", "c", "a", "t", "i", "o", "n", " ", "r", "e", "q", "u", "i", "r", "e", "m", "e", "n", "t", "s">>,
              <<"U+2705", " ", "R", "e", "v", "i", "e", "w", " ", "e", "x", "a", "m", "p", "l", "e", " ", "r", "e", "q", "u", "e", "s", "t", "s", "/", "r", "e", "s", "p", "o", "n", "s", "e", "s">>,
              <<"U+2705", " ", "E", "n", "s", "u", "r", "e", " ", "p", "a", "r", "a", "m", "e", "t", "e", "r", " ", "t", "y", "p", "e", "s", " ", "m", "a", "t", "c", "h">>,
              <<"U+2705", " ", "V", "e", "r", "i", "f", "y", " ", "r", "e", "s", "p", "o", "n", "s", "e", " ", "c", "o", "d", "e", "s", " ", "a", "r", "e", " ", "c", "o", "m", "p", "l", "e", "t", "e">>>>
      [] type = "contrib" ->
            <<<<"U+2705", " ", "C", "h", "e", "c", "k", " ", "P", "R", " ", "g", "u", "i", "d", "e", "l", "i", "n", "e", "s", " ", "a", "r", "e", " ", "c", "l", "e", "a", "r">>,
              <<"U+2705", " ", "V", "e", "r", "i", "f", "y", " ", "d", "e", "v", "e", "l", "o", "p", "m", "e", "n", "t", " ", "s", "e", "t", "u", "p", " ", "s", "t", "e", "p", "s", " ", "w", "o", "r", "k">>,
              <<"U+2705", " ", "R", "e", "v", "i", "e", "w", " ", "t", "e", "s", "t", "i", "n", "g", " ", "r", "e", "q", "u", "i", "r", "e", "m", "e", "n", "t", "s">>,
              <<"U+2705", " ", "C", "h", "e", "c", "k", " ", "c", "o", "d", "e", " ", "o", "f", " ", "c", "o", "n", "d", "u", "c", "t", " ", "i", "s", " ", "l", "i", "n", "k", "e", "d">>>>
      [] OTHER ->
            <<<<"U+2705", " ", "R", "e", "v", "i", "e", "w", " ", "f", "o", "r", " ", "t", "y", "p", "o", "s", " ", "a", "n", "d", " ", "f", "o", "r", "m", "a", "t", "t", "i", "n", "g">>,
              <<"U+2705", " ", "C", "h", "e", "c", "k", " ", "a", "l", "l", " ", "l", "i", "n", "k", "s", " ", "a", "r", "e", " ", "v", "a", "l", "i", "d">>,
              <<"U+2705", " ", "V", "e", "r", "i", "f", "y", " ", "c", "o", "d", "e", " ", "e", "x", "a", "m", "p", "l", "e", "s", " ", "w", "o", "r", "k">>,
              <<"U+2705", " ", "E", "n", "s", "u", "r", "e", " ", "c", "o", "n", "s", "i", "s", "t", "e", "n", "t", " ", "s", "t", "y", "l", "e">>>>

\* generateReviewChecklist without the item for modified sections
generateReviewChecklistWithoutModified(type, stats) ==
    FixedChecklist(type)
    \o (IF stats.added > 0
        THEN <<<<"U+D83D", "U+DCDD", " ", "R", "e", "v", "i", "e", "w", " ">> \o NumText(stats.added) \o <<" ", "n", "e", "w", " ", "s", "e", "c", "t", "i", "o", "n", "(", "s", ")">>>>
        ELSE <<>>)
    \o (IF stats.removed > 0
        THEN <<<<"U+26A0", "U+FE0F", " ", "V", "e", "r", "i", "f", "y", " ">> \o NumText(stats.removed) \o <<" ", "r", "e", "m", "o", "v", "e", "d", " ", "s", "e", "c", "t", "i", "o", "n", "(", "s", ")", " ", "a", "r", "e", " ", "i", "n", "t", "e", "n", "t", "i", "o", "n", "a", "l">>>>
        ELSE <<>>)

generateReviewChecklist(type, stats) ==
    FixedChecklist(type)
    \o (IF stats.added > 0
        THEN <<<<"U+D83D", "U+DCDD", " ", "R", "e", "v", "i", "e", "w", " ">> \o NumText(stats.added) \o <<" ", "n", "e", "w", " ", "s", "e", "c", "t", "i", "o", "n", "(", "s", ")">>>>
        ELSE <<>>)
    \o (IF stats.removed > 0
        THEN <<<<"U+26A0", "U+FE0F", " ", "V", "e", "r", "i", "f", "y", " ">> \o NumText(stats.removed) \o <<" ", "r", "e", "m", "o", "v", "e", "d", " ", "s", "e", "c", "t", "i", "o", "n", "(", "s", ")", " ", "a", "r", "e", " ", "i", "n", "t", "e", "n", "t", "i", "o", "n", "a", "l">>>>
        ELSE <<>>)
    \o (IF stats.modified > 0
        THEN <<<<"U+270F", "U+FE0F", " ", "C", "h", "e", "c", "k", " ">> \o NumText(stats.modified) \o <<" ", "m", "o", "d", "i", "f", "i", "e", "d", " ", "s", "e", "c", "t", "i", "o", "n", "(", "s", ")">>>>
        ELSE <<>>)

\* LinkInfo: hasTarget says that targetPath is neither null nor the empty
\* string, which is all validateLinks asks of a path before looking it up
Link(url, isInternal, hasTarget, targetPath) ==
    [url |-> url, isInternal |-> isInternal, hasTarget |-> hasTarget,
     targetPath |-> targetPath]

\* The deprecated patterns of validateLinks: http:// or www. anywhere
IsDeprecatedUrl(url) == Includes(url, <<"h", "t", "t", "p", ":", "/", "/">>) \/ Includes(url, <<"w", "w", "w", ".">>)

\* validateLinks reporting a broken internal link as an error
validateLinksAsErrors(doc) ==
    LET paths == { doc.sections[i].path : i \in DOMAIN doc.sections }
        broken == SelectSeq(doc.links, LAMBDA l :
                     /\ l.isInternal
                     /\ l.hasTarget
                     /\ l.targetPath \notin paths)
        outdated == SelectSeq(doc.links, LAMBDA l :
                     ~l.isInternal /\ IsDeprecatedUrl(l.url))
    IN [i \in DOMAIN broken |->
           Finding("error", CatLink, <<"B", "r", "o", "k", "e", "n", " ", "i", "n", "t", "e", "r", "n", "a", "l", " ", "l", "i", "n", "k", ":", " ">> \o broken[i].url, <<>>, 0)]
       \o
       [i \in DOMAIN outdated |->
           Finding("info", CatLink, <<"C", "o", "n", "s", "i", "d", "e", "r", " ", "u", "s", "i", "n", "g", " ", "H", "T", "T", "P", "S", " ", "f", "o", "r", ":", " ">> \o outdated[i].url, <<>>, 0)]

\* validateLinks: the broken internal links, then the external links to
\* flag as not using HTTPS
validateLinks(doc) ==
    LET paths == { doc.sections[i].path : i \in DOMAIN doc.sections }
        broken == SelectSeq(doc.links, LAMBDA l :
                     /\ l.isInternal
                     /\ l.hasTarget
                     /\ l.targetPath \notin paths)
        outdated == SelectSeq(doc.links, LAMBDA l :
                     ~l.isInternal /\ IsDeprecatedUrl(l.url))
    IN [i \in DOMAIN broken |->
           Finding("warning", CatLink, <<"B", "r", "o", "k", "e", "n", " ", "i", "n", "t", "e", "r", "n", "a", "l", " ", "l", "i", "n", "k", ":", " ">> \o broken[i].url, <<>>, 0)]
       \o
       [i \in DOMAIN outdated |->
           Finding("info", CatLink, <<"C", "o", "n", "s", "i", "d", "e", "r", " ", "u", "s", "i", "n", "g", " ", "H", "T", "T", "P", "S", " ", "f", "o", "r", ":", " ">> \o outdated[i].url, <<>>, 0)]

-----------------------------------------------------------------------------
(* The synthesis functions applied to inputs of their type domains *)

MaxFindings == 5

MaxRisks == 2

ErrorFinding == Finding("error", CatContent, <<"H", "e", "a", "d", "i", "n", "g", " ", "h", "i", "e", "r", "a", "r", "c", "h", "y", " ", "i", "s", " ", "b", "r", "o", "k", "e", "n">>, <<"d", "o", "c", "s", "/", "g", "u", "i", "d", "e", ".", "m", "d">>, 4)

WarningFinding == Finding("warning", CatLink, <<"B", "r", "o", "k", "e", "n", " ", "i", "n", "t", "e", "r", "n", "a", "l", " ", "l", "i", "n", "k", ":", " ", "#", "f", "a", "q">>, <<>>, 0)

InfoFinding == Finding("info", CatContent, <<"C", "o", "d", "e", " ", "c", "h", "a", "n", "g", "e", "s", ":", " ", "1", " ", "f", "i", "l", "e", "(", "s", ")", " ", "m", "o", "d", "i", "f", "i", "e", "d">>, <<>>, 0)

FnFindingPool == {ErrorFinding, WarningFinding, InfoFinding}

FnFindings == UNION { [1..n -> FnFindingPool] : n \in 0..MaxFindings }

\* A high risk of a generic category without evidence
SpeculativeRisk ==
    Risk("high", <<"S", "e", "c", "u", "r", "i", "t", "y">>, <<"P", "o", "s", "s", "i", "b", "l", "e", " ", "S", "Q", "L", " ", "i", "n", "j", "e", "c", "t", "i", "o", "n">>, <<>>, "Review the query")

\* A high risk that repeats the broken-link warning, with evidence
GroundedRisk ==
    Risk("high", CatDocs, <<"B", "r", "o", "k", "e", "n", " ", "i", "n", "t", "e", "r", "n", "a", "l", " ", "l", "i", "n", "k", ":", " ", "#", "f", "a", "q">>, <<"d", "o", "c", "s", "/", "g", "u", "i", "d", "e", ".", "m", "d", " ", "l", "i", "n", "e", " ", "4">>, "Fix the anchor")

\* A medium risk in reorganization vocabulary
ReorderRisk ==
    Risk("medium", CatDocs, <<"S", "e", "c", "t", "i", "o", "n", "s", " ", "w", "e", "r", "e", " ", "m", "o", "v", "e", "d">>, <<>>, "Check the anchors")

RiskPool == {SpeculativeRisk, GroundedRisk, ReorderRisk}

RiskLists == UNION { [1..n -> RiskPool] : n \in 0..MaxRisks }

\* parsed.keyRisks: absent, an array, or a value that is no array
KeyRisksValues ==
    { [t |-> "undefined", items |-> <<>>], [t |-> "object", items |-> <<>>] }
    \cup { [t |-> "array", items |-> l] : l \in RiskLists }

ConfidenceValues ==
    { JsUndefined, JsNull, JsString }
    \cup { JsNumber(n) : n \in {-1, 0, 50, 82, 83, 85, 86, 92, 93, 100, 101} }

NoVerdictObject ==
    [present |-> FALSE, verdict |-> "<undefined>", confidence |-> JsUndefined,
     summary |-> "<undefined>"]

VerdictObjects ==
    { NoVerdictObject }
    \cup [present : {TRUE},
          verdict : {"<undefined>", "", "rejected"} \cup ValidVerdicts,
          confidence : ConfidenceValues,
          summary : {"<undefined>", "Looks fine overall."}]

ObjectAnswers(sectionCounts) ==
    [shape : {"object"},
     prIntent : {"<undefined>", "", "Clarify the setup guide."},
     changeOverview : {"<undefined>", "Setup section rewritten."},
     verdict : VerdictObjects,
     keyRisks : KeyRisksValues,
     checklist : {<<>>},
     sections : sectionCounts]

EmptyAnswer(shape) ==
    [shape |-> shape, prIntent |-> "<undefined>", changeOverview |-> "<undefined>",
     verdict |-> NoVerdictObject,
     keyRisks |-> [t |-> "undefined", items |-> <<>>],
     checklist |-> <<>>, sections |-> 0]

FnAnswers == {EmptyAnswer("none"), EmptyAnswer("malformed")} \cup ObjectAnswers({0})

GenrePool == {"readme", "sop", "api", "other"}

ReorderChanges ==
    <<Change("added", Undef, "setup", Undef, "Setup"),
      Change("removed", "intro", Undef, "Intro", Undef),
      Change("moved", "intro", "setup", "Intro", "Setup")>>

ModifiedChanges == <<Change("modified", "intro", "intro", "Intro", "Intro")>>

ChangesPool == {<<>>, ReorderChanges, ModifiedChanges}

\* Pull-request description, document type and section changes
ContextPool ==
    { <<"", "other", <<>>>>,
      <<"Fixes the setup guide.", "readme", ReorderChanges>>,
      <<"", "sop", ModifiedChanges>>,
      <<"Fixes the setup guide.", "api", <<>>>> }

InitFn ==
    /\ DiffIdle
    /\ LibIdle
    /\ rpc = "fn"
    /\ configured = TRUE
    /\ filesLeft = 0
    /\ genResult = NotCalled
    /\ v2Review = NoReview
    /\ origin = "none"
    /\ post = NotPosted
    /\ current = NoFile
    /\ \/ /\ aiResponse \in FnAnswers
          /\ allFindings \in {<<>>, <<ErrorFinding>>, <<WarningFinding>>}
          /\ prBody = ""
          /\ docType = "other"
          /\ changes = ReorderChanges
          /\ codeFiles = 0
       \/ /\ aiResponse = NoAnswer
          /\ allFindings \in FnFindings
          /\ \E c \in ContextPool :
                /\ prBody = c[1]
                /\ docType = c[2]
                /\ changes = c[3]
          /\ codeFiles \in {-1, 0, 1}

\* parseV2Response on the answer
FnParse ==
    /\ rpc = "fn"
    /\ aiResponse # NoAnswer
    /\ v2Review' = parseV2Response(aiResponse)
    /\ origin' = "model"
    /\ rpc' = "fn_review"
    /\ UNCHANGED <<configured, prBody, docType, changes, codeFiles, filesLeft,
                   allFindings, aiResponse, genResult, post>>
    /\ UNCHANGED current
    /\ UNCHANGED diffVars
    /\ UNCHANGED libVars

\* generateDeterministicFallback on the findings
FnFallback ==
    /\ rpc = "fn"
    /\ aiResponse = NoAnswer
    /\ v2Review' = generateDeterministicFallback(prBody, docType, StatsOf(changes),
                                                 allFindings, codeFiles)
    /\ origin' = "fallback"
    /\ rpc' = "fn_review"
    /\ UNCHANGED <<configured, prBody, docType, changes, codeFiles, filesLeft,
                   allFindings, aiResponse, genResult, post>>
    /\ UNCHANGED current
    /\ UNCHANGED diffVars
    /\ UNCHANGED libVars

\* postReviewResults on the review and the filtered findings
FnPost ==
    /\ rpc = "fn_review"
    /\ v2Review # NoReview
    /\ post' = postReviewResults(v2Review, filterHighSignalFindings(allFindings),
                                 StatsOf(changes), v2Review.sections > 0, prBody)
    /\ v2Review' = post'.review
    /\ rpc' = "fn_posted"
    /\ UNCHANGED <<configured, prBody, docType, changes, codeFiles, filesLeft,
                   allFindings, aiResponse, genResult, origin>>
    /\ UNCHANGED current
    /\ UNCHANGED diffVars
    /\ UNCHANGED libVars

NextFn == FnParse \/ FnFallback \/ FnPost

SpecFn == InitFn /\ [][NextFn]_vars

-----------------------------------------------------------------------------
(* handlePullRequest: src/unnamed/part_003 lines 80-323 *)

MaxFiles == 2

MaxCodeFiles == 1

\* A parsed document: its sections, its links, and the numbers of its tables
\* and code blocks
Doc(sections, links, tables, codeBlocks) ==
    [sections |-> sections, links |-> links, tables |-> tables,
     codeBlocks |-> codeBlocks]

\* getFileContent returned null or the empty string
Absent == [absent |-> TRUE]

\* parseMarkdown of the empty string
EmptyDoc == Doc(<<>>, <<>>, 0, 0)

GuideDoc ==
    Doc(<<Sec("intro", "Intro", <<"the", "quick", "brown", "fox", "jumps", "high">>),
          Sec("setup", "Setup", <<"the", "quick", "brown", "fox", "jumps">>)>>,
        <<>>, 0, 0)

\* The guide without its setup section, still linking to it, with a table
TrimmedDoc ==
    Doc(<<Sec("intro", "Intro", <<"the", "quick", "brown", "fox", "jumps", "high">>)>>,
        <<Link(<<"#", "s", "e", "t", "u", "p">>, TRUE, TRUE, "setup")>>, 1, 0)

\* The guide with its setup section nested under the intro
MovedDoc ==
    Doc(<<Sec("intro", "Intro", <<"the", "quick", "brown", "fox", "jumps", "high">>),
          Sec("intro/setup", "Setup", <<"quick", "The", "brown", "fox", "jumps">>)>>,
        <<Link(<<"h", "t", "t", "p", ":", "/", "/", "e", "x", "a", "m", "p", "l", "e", ".", "c", "o", "m", "/", "f", "a", "q">>, FALSE, FALSE, "")>>, 0, 1)

\* A new document with a broken anchor, a table and a code block
LinkedDoc ==
    Doc(<<Sec("intro", "Intro", <<"the", "quick", "brown", "fox", "jumps">>)>>,
        <<Link(<<"#", "f", "a", "q">>, TRUE, TRUE, "faq")>>, 1, 1)

\* Base and head revision of a file where one of them is missing
NewFilePairs == { <<Absent, LinkedDoc>>, <<GuideDoc, Absent>>, <<Absent, Absent>> }

\* Base and head revision of a file present in both
ChangedFilePairs ==
    { <<GuideDoc, GuideDoc>>, <<GuideDoc, TrimmedDoc>>, <<GuideDoc, MovedDoc>> }

\* The results of classifyDocument
PipelineGenres == {"readme", "pricing", "other"}

\* The Markdown files of the pull request, by the number still to analyse
Files ==
    <<[name |-> "README.md", text |-> <<"R", "E", "A", "D", "M", "E", ".", "m", "d">>],
      [name |-> "docs/guide.md", text |-> <<"d", "o", "c", "s", "/", "g", "u", "i", "d", "e", ".", "m", "d">>],
      [name |-> "docs/faq.mdx", text |-> <<"d", "o", "c", "s", "/", "f", "a", "q", ".", "m", "d", "x">>]>>

\* The code files of the pull request
CodeFilePool ==
    <<[filename |-> <<"s", "r", "c", "/", "a", "p", "p", ".", "t", "s">>, additions |-> 3, deletions |-> 1],
      [filename |-> <<"s", "r", "c", "/", "l", "i", "b", "/", "o", "l", "d", ".", "t", "s">>, additions |-> 0, deletions |-> 12]>>

\* linkFindings.map(f => ({ ...f, file: filename }))
WithFile(findings, file) ==
    [i \in DOMAIN findings |-> [findings[i] EXCEPT !.file = file]]

\* The findings of the branch for a file missing in one revision
NewFileFindings(doc, type, file) ==
    WithFile(validateLinks(doc), file)
    \o (IF Len(doc.sections) > 0
        THEN <<Finding("info", CatContent,
                 <<"N", "e", "w", " ", "d", "o", "c", "u", "m", "e", "n", "t", ":", " ">> \o NumText(Len(doc.sections)) \o <<" ", "s", "e", "c", "t", "i", "o", "n", "(", "s", ")", ",", " ">>
                 \o NumText(doc.tables) \o <<" ", "t", "a", "b", "l", "e", "(", "s", ")", ",", " ">>
                 \o NumText(doc.codeBlocks) \o <<" ", "c", "o", "d", "e", " ", "b", "l", "o", "c", "k", "(", "s", ")">>, file, 0)>>
        ELSE <<>>)
    \o (IF doc.tables > 0 /\ type # "pricing" /\ type # "adr"
        THEN <<Finding("info", CatContent,
                 <<"D", "o", "c", "u", "m", "e", "n", "t", " ", "h", "a", "s", " ">> \o NumText(doc.tables) \o <<" ", "t", "a", "b", "l", "e", "(", "s", ")", " ", "-", " ", "c", "o", "n", "s", "i", "d", "e", "r", " ", "i", "f", " ", "t", "h", "i", "s", " ", "s", "h", "o", "u", "l", "d", " ", "b", "e", " ", "v", "e", "r", "i", "f", "i", "e", "d">>, file, 0)>>
        ELSE <<>>)
    \o (IF doc.codeBlocks > 0
        THEN <<Finding("info", CatContent,
                 <<"D", "o", "c", "u", "m", "e", "n", "t", " ", "h", "a", "s", " ">> \o NumText(doc.codeBlocks) \o <<" ", "c", "o", "d", "e", " ", "b", "l", "o", "c", "k", "(", "s", ")", " ", "-", " ", "v", "e", "r", "i", "f", "y", " ", "e", "x", "a", "m", "p", "l", "e", "s", " ", "a", "r", "e", " ", "c", "o", "r", "r", "e", "c", "t">>, file, 0)>>
        ELSE <<>>)

\* NewFileChange pushing a modified record
NewFileChangeAsModified(doc, file) ==
    IF Len(doc.sections) > 0
    THEN Change("modified", Undef,
                IF doc.sections[1].path # "" THEN doc.sections[1].path ELSE file.name,
                Undef,
                IF doc.sections[1].heading # "" THEN doc.sections[1].heading
                ELSE file.name)
    ELSE Change("modified", Undef, file.name, Undef, file.name)

\* The change pushed for a file missing in one revision
NewFileChange(doc, file) ==
    IF Len(doc.sections) > 0
    THEN Change("added", Undef,
                IF doc.sections[1].path # "" THEN doc.sections[1].path ELSE file.name,
                Undef,
                IF doc.sections[1].heading # "" THEN doc.sections[1].heading
                ELSE file.name)
    ELSE Change("added", Undef, file.name, Undef, file.name)

\* The move/reorder heuristic of the diff engine: a non-empty moved list
\* alongside added and removed sections
isLikelyMoveOrReorder(removed, added, moved) ==
    Len(moved) > 0 /\ Len(added) > 0 /\ Len(removed) > 0

\* analyzeChanges: src/unnamed/part_003 lines 350-390
analyzeChanges(file, d, old, new) ==
    LET removedSections == SelectSeq(d.sections, LAMBDA c : c.type = "removed")
        addedSections == SelectSeq(d.sections, LAMBDA c : c.type = "added")
        movedSections == SelectSeq(d.sections, LAMBDA c : c.type = "moved")
        likelyMoveReorder ==
            isLikelyMoveOrReorder(removedSections, addedSections, movedSections)
    IN WithFile(validateLinks(new), file)
       \o (IF Len(removedSections) > 0
           THEN <<Finding(IF likelyMoveReorder THEN "info" ELSE "warning",
                          CatContent,
                          NumText(Len(removedSections))
                          \o (IF likelyMoveReorder THEN <<" ", "s", "e", "c", "t", "i", "o", "n", "(", "s", ")", " ", "a", "p", "p", "e", "a", "r", " ", "t", "o", " ", "b", "e", " ", "r", "e", "o", "r", "g", "a", "n", "i", "z", "e", "d", " ", "(", "m", "o", "v", "e", "d", "/", "r", "e", "n", "a", "m", "e", "d", ")">> ELSE <<" ", "s", "e", "c", "t", "i", "o", "n", "(", "s", ")", " ", "r", "e", "m", "o", "v", "e", "d", " ", "-", " ", "e", "n", "s", "u", "r", "e", " ", "t", "h", "i", "s", " ", "i", "s", " ", "i", "n", "t", "e", "n", "t", "i", "o", "n", "a", "l">>),
                          file, 0)>>
           ELSE <<>>)
       \o (IF new.tables # old.tables
           THEN <<Finding("info", CatContent,
                          <<"T", "a", "b", "l", "e", " ", "c", "o", "u", "n", "t", " ", "c", "h", "a", "n", "g", "e", "d", " ", "f", "r", "o", "m", " ">> \o NumText(old.tables) \o <<" ", "t", "o", " ">>
                          \o NumText(new.tables) \o <<" ", "-", " ", "v", "e", "r", "i", "f", "y", " ", "i", "f", " ", "i", "n", "t", "e", "n", "t", "i", "o", "n", "a", "l">>, file, 0)>>
           ELSE <<>>)

\* The findings for the code files
CodeFileFindings(n) ==
    IF n > 0
    THEN <<Finding("info", CatContent,
                   <<"C", "o", "d", "e", " ", "c", "h", "a", "n", "g", "e", "s", ":", " ">> \o NumText(n) \o <<" ", "f", "i", "l", "e", "(", "s", ")", " ", "m", "o", "d", "i", "f", "i", "e", "d">>, <<>>, 0)>>
         \o [i \in 1..n |->
               Finding("info", CatCode,
                       CodeFilePool[i].filename \o <<":", " ", "+">>
                       \o NumText(CodeFilePool[i].additions) \o <<" ", "-">>
                       \o NumText(CodeFilePool[i].deletions), <<>>, 0)]
    ELSE <<>>

\* The checklist items as findings; none while no file has been classified
ChecklistFindings(type, stats) ==
    IF type = "null" THEN <<>>
    ELSE LET checklist == generateReviewChecklist(type, stats)
         IN [i \in DOMAIN checklist |->
               Finding("info", CatContent, checklist[i], <<>>, 0)]

\* docType || { type: 'other', ... }
TypeOrOther(type) == IF type = "null" THEN "other" ELSE type

\* An accepted or rejected answer of the model
Answer(verdict, confidence, risks, nSections) ==
    [shape |-> "object", prIntent |-> "Clarify the setup guide.",
     changeOverview |-> "Setup section rewritten.",
     verdict |-> [present |-> TRUE, verdict |-> verdict,
                  confidence |-> JsNumber(confidence),
                  summary |-> "Looks fine overall."],
     keyRisks |-> [t |-> "array", items |-> risks],
     checklist |-> <<>>, sections |-> nSections]

\* The message contents the model backend answers with
PipelineAnswers ==
    { EmptyAnswer("none"), EmptyAnswer("malformed"),
      Answer("rejected", 90, <<>>, 0),
      Answer("changes_requested", 90, <<>>, 0),
      Answer("changes_requested", 90, <<SpeculativeRisk>>, 0),
      Answer("changes_requested", 90, <<GroundedRisk>>, 1),
      Answer("approved", 100, <<ReorderRisk>>, 1) }

\* How the model call ends: fetch rejects, the status is not ok, the body
\* is no JSON, or the backend answers with a message content
CallFailures == {"rejects", "not ok", "unreadable"}

generateV2ReviewRethrows(outcome, response) ==
    IF outcome \in {"rejects", "unreadable"}
    THEN [status |-> "threw", value |-> NoReview]
    ELSE IF outcome = "not ok"
    THEN [status |-> "returned", value |-> NoReview]
    ELSE [status |-> "returned", value |-> parseV2Response(response)]

\* generateV2Review: src/src/lib/ai.ts lines 242-287
generateV2Review(outcome, response) ==
    IF outcome \in CallFailures
    THEN [status |-> "returned", value |-> NoReview]
    ELSE [status |-> "returned", value |-> parseV2Response(response)]

InitPipeline ==
    /\ DiffIdle
    /\ LibIdle
    /\ rpc = "files"
    /\ configured \in BOOLEAN
    /\ prBody \in {"", "Fixes the setup guide."}
    /\ docType = "null"
    /\ changes = <<>>
    /\ codeFiles \in 0..MaxCodeFiles
    /\ filesLeft \in 0..MaxFiles
    /\ allFindings = <<>>
    /\ aiResponse = NoAnswer
    /\ genResult = NotCalled
    /\ v2Review = NoReview
    /\ origin = "none"
    /\ post = NotPosted
    /\ current = NoFile

\* One pass of the loop for a file missing in the base or head revision
AnalyzeNewFile ==
    /\ rpc = "files"
    /\ filesLeft > 0
    /\ \E pair \in NewFilePairs, type \in PipelineGenres :
          LET file == Files[filesLeft]
              doc == IF pair[2] # Absent THEN pair[2]
                     ELSE IF pair[1] # Absent THEN pair[1]
                     ELSE EmptyDoc
          IN /\ docType' = type
             /\ allFindings' = allFindings \o NewFileFindings(doc, type, file.text)
             /\ changes' = Append(changes, NewFileChange(doc, file))
             /\ current' = [name |-> file.name, baseContent |-> pair[1] # Absent,
                            headContent |-> pair[2] # Absent, classified |-> type]
    /\ filesLeft' = filesLeft - 1
    /\ UNCHANGED <<rpc, configured, prBody, codeFiles, aiResponse, genResult,
                   v2Review, origin, post>>
    /\ UNCHANGED diffVars
    /\ UNCHANGED libVars

\* One pass of the loop for a file present in both revisions
AnalyzeChangedFile ==
    /\ rpc = "files"
    /\ filesLeft > 0
    /\ \E pair \in ChangedFilePairs, type \in PipelineGenres :
          LET file == Files[filesLeft]
              d == computeSemanticDiff(pair[1].sections, pair[2].sections)
          IN /\ docType' = IF docType = "null" THEN type ELSE docType
             /\ changes' = changes \o d.sections
             /\ allFindings' =
                   allFindings \o analyzeChanges(file.text, d, pair[1], pair[2])
             /\ current' = [name |-> file.name, baseContent |-> TRUE,
                            headContent |-> TRUE,
                            classified |-> IF docType = "null" THEN type
                                           ELSE "not called"]
    /\ filesLeft' = filesLeft - 1
    /\ UNCHANGED <<rpc, configured, prBody, codeFiles, aiResponse, genResult,
                   v2Review, origin, post>>
    /\ UNCHANGED diffVars
    /\ UNCHANGED libVars

\* After the loop: the code-file findings, the stats and the checklist
BuildResult ==
    /\ rpc = "files"
    /\ filesLeft = 0
    /\ allFindings' = allFindings \o CodeFileFindings(codeFiles)
                      \o ChecklistFindings(docType, StatsOf(changes))
    /\ rpc' = "built"
    /\ current' = NoFile
    /\ UNCHANGED <<configured, prBody, docType, changes, codeFiles, filesLeft,
                   aiResponse, genResult, v2Review, origin, post>>
    /\ UNCHANGED diffVars
    /\ UNCHANGED libVars

\* MINIMAX_API_KEY or MINIMAX_GROUP_ID is unset: no review is generated
SkipModel ==
    /\ rpc = "built"
    /\ ~configured
    /\ rpc' = "review"
    /\ UNCHANGED <<configured, prBody, docType, changes, codeFiles, filesLeft,
                   allFindings, aiResponse, genResult, v2Review, origin, post>>
    /\ UNCHANGED current
    /\ UNCHANGED diffVars
    /\ UNCHANGED libVars

\* generateV2Review is called and awaits the backend
StartModelCall ==
    /\ rpc = "built"
    /\ configured
    /\ rpc' = "calling"
    /\ UNCHANGED <<configured, prBody, docType, changes, codeFiles, filesLeft,
                   allFindings, aiResponse, genResult, v2Review, origin, post>>
    /\ UNCHANGED current
    /\ UNCHANGED diffVars
    /\ UNCHANGED libVars

\* The call ends; handlePullRequest keeps the model's review or builds the
\* deterministic fallback (also in its catch block)
CompleteCall(outcome, response) ==
    LET returned == generateV2Review(outcome, response)
        accepted == returned.status = "returned" /\ returned.value # NoReview
    IN /\ rpc = "calling"
       /\ aiResponse' = response
       /\ genResult' = returned
       /\ v2Review' = IF accepted THEN returned.value
                      ELSE generateDeterministicFallback(
                              prBody, TypeOrOther(docType), StatsOf(changes),
                              allFindings, codeFiles)
       /\ origin' = IF accepted THEN "model" ELSE "fallback"
       /\ rpc' = "review"
       /\ UNCHANGED <<configured, prBody, docType, changes, codeFiles, filesLeft,
                      allFindings, post>>
       /\ UNCHANGED current
       /\ UNCHANGED diffVars
       /\ UNCHANGED libVars

FetchRejects == CompleteCall("rejects", NoAnswer)

ResponseNotOk == CompleteCall("not ok", NoAnswer)

BodyUnreadable == CompleteCall("unreadable", NoAnswer)

ModelAnswers == \E a \in PipelineAnswers : CompleteCall("answers", a)

\* filterHighSignalFindings, then postReviewResults, which rewrites the
\* review's verdict when its guardrail applies
PostReview ==
    /\ rpc = "review"
    /\ post' = postReviewResults(v2Review, filterHighSignalFindings(allFindings),
                                 StatsOf(changes),
                                 origin = "model" /\ v2Review.sections > 0, prBody)
    /\ v2Review' = post'.review
    /\ rpc' = "posted"
    /\ UNCHANGED <<configured, prBody, docType, changes, codeFiles, filesLeft,
                   allFindings, aiResponse, genResult, origin>>
    /\ UNCHANGED current
    /\ UNCHANGED diffVars
    /\ UNCHANGED libVars

Next ==
    \/ AnalyzeNewFile
    \/ AnalyzeChangedFile
    \/ BuildResult
    \/ SkipModel
    \/ StartModelCall
    \/ FetchRejects
    \/ ResponseNotOk
    \/ BodyUnreadable
    \/ ModelAnswers
    \/ PostReview

Spec == InitPipeline /\ [][Next]_vars

\* The steps handlePullRequest takes by itself before posting; the steps
\* that end the model call wait for the backend, and fetch is called without
\* a signal or timeout (src/src/lib/ai.ts lines 259-272)
HandlerStep ==
    \/ AnalyzeNewFile
    \/ AnalyzeChangedFile
    \/ BuildResult
    \/ SkipModel
    \/ StartModelCall

\* The handler keeps running: weak fairness of its own steps. PostReview is
\* enabled exactly while rpc = "review" and leaves that position, so its
\* weak fairness is stated by that position. Nothing obliges the backend
\* to answer.
SpecLive ==
    /\ Spec
    /\ WF_vars(HandlerStep)
    /\ []<>(rpc # "review")

-----------------------------------------------------------------------------
(* Section paths of parseMarkdown: src/unnamed/part_004 lines 182-296 *)

\* slugify: lower case, every run of characters other than a-z and 0-9
\* replaced by one dash, then a leading and a trailing dash removed
slugify(text) ==
    LET lower == toLowerCase(text)
        alnum(c) == IsLower(c) \/ IsDigit(c)
        marked == [i \in DOMAIN lower |->
                     IF alnum(lower[i]) THEN lower[i]
                     ELSE IF i = 1 \/ alnum(lower[i - 1]) THEN "-"
                     ELSE "dropped"]
        dashed == SelectSeq(marked, LAMBDA c : c # "dropped")
        headless == IF dashed # <<>> /\ Head(dashed) = "-" THEN Tail(dashed)
                    ELSE dashed
    IN IF headless # <<>> /\ headless[Len(headless)] = "-"
       THEN SubSeq(headless, 1, Len(headless) - 1)
       ELSE headless

\* The heading nodes of the tree in document order, each with its depth and
\* text; the visitor keeps currentPath from one heading to the next
RECURSIVE SectionsFrom(_, _, _)
SectionsFrom(headings, i, currentPath) ==
    IF i > Len(headings) THEN <<>>
    ELSE LET path == IF headings[i].level = 1
                     THEN slugify(headings[i].text)
                     ELSE currentPath \o <<"/">> \o slugify(headings[i].text)
         IN <<[path |-> path, heading |-> headings[i].text,
               level |-> headings[i].level]>>
            \o SectionsFrom(headings, i + 1, path)

\* parseMarkdown, for the sections of the document it returns
parseMarkdown(headings) == [sections |-> SectionsFrom(headings, 1, <<>>)]

\* extractLinkPath: found is FALSE for null. A fragment loses its # and has
\* every dash replaced by a slash; a path ending in .md or .mdx loses that
\* extension and one leading slash.
extractLinkPath(url) ==
    LET endsWith(lit) == Len(url) >= Len(lit) /\ LitAt(url, Len(url) - Len(lit), lit)
        stem == IF endsWith(<<".", "m", "d", "x">>) THEN SubSeq(url, 1, Len(url) - 4)
                ELSE SubSeq(url, 1, Len(url) - 3)
    IN IF StartsWith(url, <<"#">>)
       THEN [found |-> TRUE,
             path |-> [i \in 1..(Len(url) - 1) |->
                         IF url[i + 1] = "-" THEN "/" ELSE url[i + 1]]]
       ELSE IF endsWith(<<".", "m", "d">>) \/ endsWith(<<".", "m", "d", "x">>)
       THEN [found |-> TRUE,
             path |-> IF StartsWith(stem, <<"/">>) THEN Tail(stem) ELSE stem]
       ELSE [found |-> FALSE, path |-> <<>>]

\* The link nodes of the tree, in document order
LinksOf(urls) ==
    [i \in DOMAIN urls |->
       LET url == urls[i]
           isInternal == \/ StartsWith(url, <<"#">>)
                         \/ /\ ~StartsWith(url, <<"h", "t", "t", "p">>)
                            /\ ~StartsWith(url, <<"/", "/">>)
           target == extractLinkPath(url)
       IN Link(url, isInternal,
               isInternal /\ target.found /\ target.path # <<>>,
               target.path)]

MaxHeadings == 3

MaxLevel == 3

HeadingTexts == { <<"I", "n", "t", "r", "o">>, <<"S", "e", "t", " ", "u", "p", "!">>, <<"F", "A", "Q", " ", "&", " ", "T", "i", "p", "s">> }

HeadingPool == [level : 1..MaxLevel, text : HeadingTexts]

\* The contents parsed: sequences of headings
ParseCalls ==
    { [fn |-> "parseMarkdown", arg |-> hs] :
        hs \in UNION { [1..n -> HeadingPool] : n \in 0..MaxHeadings } }

-----------------------------------------------------------------------------
(* classifyDocument: src/unnamed/part_004 lines 485-607 *)

\* The genres in the enumeration order of the pattern table
Genres == <<"sop", "adr", "readme", "runbook", "pricing", "changelog", "guide", "api", "contrib">>

\* The pattern table: per genre and pattern, the weight in halves (6 is
\* weight 3, 3 is weight 1.5) and whether the pattern is anchored with ^
DOC_TYPE_PATTERNS ==
    [g \in {Genres[i] : i \in DOMAIN Genres} |->
       CASE g = "sop" ->
              <<[weight |-> 6, anchored |-> TRUE], [weight |-> 4, anchored |-> FALSE],
                [weight |-> 3, anchored |-> FALSE], [weight |-> 4, anchored |-> FALSE],
                [weight |-> 3, anchored |-> FALSE]>>
         [] g = "adr" ->
              <<[weight |-> 6, anchored |-> TRUE], [weight |-> 3, anchored |-> FALSE],
                [weight |-> 4, anchored |-> FALSE], [weight |-> 2, anchored |-> FALSE],
                [weight |-> 3, anchored |-> FALSE]>>
         [] g = "readme" ->
              <<[weight |-> 8, anchored |-> TRUE], [weight |-> 4, anchored |-> FALSE],
                [weight |-> 3, anchored |-> FALSE], [weight |-> 2, anchored |-> FALSE]>>
         [] g = "runbook" ->
              <<[weight |-> 6, anchored |-> FALSE], [weight |-> 4, anchored |-> FALSE],
                [weight |-> 4, anchored |-> FALSE], [weight |-> 4, anchored |-> FALSE],
                [weight |-> 3, anchored |-> FALSE]>>
         [] g = "pricing" ->
              <<[weight |-> 6, anchored |-> TRUE], [weight |-> 4, anchored |-> FALSE],
                [weight |-> 4, anchored |-> FALSE], [weight |-> 3, anchored |-> FALSE]>>
         [] g = "changelog" ->
              <<[weight |-> 6, anchored |-> FALSE], [weight |-> 4, anchored |-> TRUE],
                [weight |-> 3, anchored |-> FALSE]>>
         [] g = "guide" ->
              <<[weight |-> 4, anchored |-> FALSE], [weight |-> 2, anchored |-> FALSE],
                [weight |-> 3, anchored |-> FALSE], [weight |-> 2, anchored |-> FALSE]>>
         [] g = "api" ->
              <<[weight |-> 4, anchored |-> FALSE], [weight |-> 4, anchored |-> FALSE],
                [weight |-> 4, anchored |-> FALSE], [weight |-> 3, anchored |-> FALSE],
                [weight |-> 3, anchored |-> FALSE]>>
         [] g = "contrib" ->
              <<[weight |-> 6, anchored |-> FALSE], [weight |-> 4, anchored |-> FALSE],
                [weight |-> 3, anchored |-> FALSE]>>]

\* The patterns, as <<genre, index>>, that accept a word standing at the
\* start of a text. The /i patterns find "pr" inside procedure,
\* prerequisites and pricing (contrib 2), "license" is in readme 3 and
\* contrib 3, "prerequisite" in sop 3 and guide 3.
Matches(word) ==
    CASE word = "README"        -> {<<"readme", 1>>}
      [] word = "Procedure"     -> {<<"sop", 1>>, <<"sop", 2>>, <<"contrib", 2>>}
      [] word = "Prerequisites" -> {<<"sop", 3>>, <<"guide", 3>>, <<"contrib", 2>>}
      [] word = "Runbook"       -> {<<"runbook", 1>>, <<"runbook", 4>>}
      [] word = "Pricing"       -> {<<"pricing", 1>>, <<"contrib", 2>>}
      [] word = "Guide"         -> {<<"guide", 1>>}
      [] word = "Contributing"  -> {<<"readme", 3>>, <<"contrib", 1>>}
      [] word = "License"       -> {<<"readme", 3>>, <<"contrib", 3>>}
      [] word = "Decision"      -> {<<"adr", 2>>}
      [] OTHER                  -> {}

\* pattern.test(text) on a text of words joined by spaces: some word is
\* accepted, and by an anchored pattern only the first word
test(genre, k, words) ==
    \E i \in DOMAIN words :
        /\ <<genre, k>> \in Matches(words[i])
        /\ DOC_TYPE_PATTERNS[genre][k].anchored => i = 1

\* scores after the table and code block bonuses, in twentieths: a weight
\* of w halves adds 20w for the title, 10w for the headings and 3w (0.3
\* times the weight) for the content; a table adds 0.5 to pricing and 0.3
\* to adr; a code block adds 0.3 to runbook and guide, 0.2 to sop, 0.4 to api
Scores(doc) ==
    LET title == IF doc.sections # <<>> THEN <<doc.sections[1].heading>> ELSE <<>>
        allHeadings == [i \in DOMAIN doc.sections |-> doc.sections[i].heading]
        allContent == IF doc.sections # <<>> THEN doc.sections[1].content ELSE <<>>
        RECURSIVE PatternScore(_, _)
        PatternScore(g, k) ==
            IF k = 0 THEN 0
            ELSE LET w == DOC_TYPE_PATTERNS[g][k].weight
                 IN PatternScore(g, k - 1)
                    + (IF test(g, k, title) THEN 20 * w ELSE 0)
                    + (IF test(g, k, allHeadings) THEN 10 * w ELSE 0)
                    + (IF test(g, k, allContent) THEN 3 * w ELSE 0)
        perTable == [g \in DOMAIN DOC_TYPE_PATTERNS |->
                       CASE g = "pricing" -> 10 [] g = "adr" -> 6 [] OTHER -> 0]
        perCodeBlock == [g \in DOMAIN DOC_TYPE_PATTERNS |->
                           CASE g \in {"runbook", "guide"} -> 6 [] g = "sop" -> 4
                             [] g = "api" -> 8 [] OTHER -> 0]
    IN [g \in DOMAIN DOC_TYPE_PATTERNS |->
          PatternScore(g, Len(DOC_TYPE_PATTERNS[g]))
          + doc.tables * perTable[g] + doc.codeBlocks * perCodeBlock[g]]

\* Object.values(scores).reduce((a, b) => a + b, 0)
TotalScore(scores) ==
    LET RECURSIVE SumTo(_)
        SumTo(i) == IF i = 0 THEN 0 ELSE SumTo(i - 1) + scores[Genres[i]]
    IN SumTo(Len(Genres))

\* The scan for the highest score and the confidence, a fraction num/den.
\* strict says whether the scan replaces on a greater score only, capped
\* whether Math.min(..., 1) is applied.
Classification(doc, strict, capped) ==
    LET scores == Scores(doc)
        RECURSIVE ScanTo(_)
        ScanTo(i) ==
            IF i = 0 THEN [maxType |-> "other", maxScore |-> 0]
            ELSE LET before == ScanTo(i - 1)
                 IN IF (IF strict THEN scores[Genres[i]] > before.maxScore
                        ELSE scores[Genres[i]] >= before.maxScore /\ scores[Genres[i]] > 0)
                    THEN [maxType |-> Genres[i], maxScore |-> scores[Genres[i]]]
                    ELSE before
        found == ScanTo(Len(Genres))
        totalScore == TotalScore(scores)
        sum == [num |-> 10 * found.maxScore + 3 * totalScore, den |-> 10 * totalScore]
    IN [type |-> found.maxType,
        confidence |-> IF totalScore > 0
                       THEN IF capped /\ sum.num > sum.den THEN [num |-> 1, den |-> 1]
                            ELSE sum
                       ELSE [num |-> 0, den |-> 1]]

\* classifyDocument without Math.min
classifyDocumentUncapped(doc) == Classification(doc, TRUE, FALSE)

\* classifyDocument with a later genre of equal score replacing the earlier
classifyDocumentLastWins(doc) == Classification(doc, FALSE, TRUE)

classifyDocument(doc) == Classification(doc, TRUE, TRUE)

MaxDocHeadings == 2

MaxTables == 1

MaxCodeBlocks == 1

Words == {"Overview", "README", "Procedure", "Prerequisites", "Runbook", "Pricing", "Guide", "Contributing", "License", "Decision"}

\* The documents classified: headings of one word each, the first section
\* with or without one word of content
ClassifyCalls ==
    { [fn |-> "classifyDocument",
       arg |-> Doc([i \in DOMAIN hs |-> Sec(hs[i], hs[i], IF i = 1 THEN c ELSE <<>>)],
                   <<>>, t, b)] :
        hs \in UNION { [1..n -> Words] : n \in 0..MaxDocHeadings },
        c \in {<<>>} \cup { <<w>> : w \in Words },
        t \in 0..MaxTables, b \in 0..MaxCodeBlocks }

MaxCount == 1

ChecklistTypes == {Genres[i] : i \in DOMAIN Genres} \cup {"other"}

\* The calls of generateReviewChecklist: a genre, the statistics of a diff
\* and the optional document
ChecklistCalls ==
    { [fn |-> "generateReviewChecklist", type |-> type,
       stats |-> [added |-> a, removed |-> r, modified |-> m, moved |-> v],
       doc |-> doc] :
        type \in ChecklistTypes, a \in 0..MaxCount, r \in 0..MaxCount,
        m \in 0..MaxCount, v \in 0..MaxCount, doc \in {Absent, GuideDoc} }

MaxLinkedHeadings == 2

LinkUrls == { <<"#", "i", "n", "t", "r", "o">>,
             <<"#", "s", "e", "t", "-", "u", "p">>,
             <<"#", "f", "a", "q">>,
             <<"#">>,
             <<"g", "u", "i", "d", "e", ".", "m", "d">>,
             <<"/", "d", "o", "c", "s", "/", "f", "a", "q", ".", "m", "d", "x">>,
             <<"l", "o", "g", "o", ".", "p", "n", "g">>,
             <<"h", "t", "t", "p", "s", ":", "/", "/", "e", "x", "a", "m", "p", "l", "e", ".", "c", "o", "m">> }

\* The documents whose links are validated: headings and one or two links
LinkCalls ==
    { [fn |-> "validateLinks", arg |-> hs, links |-> ls] :
        hs \in UNION { [1..n -> HeadingPool] : n \in 0..MaxLinkedHeadings },
        ls \in { <<u>> : u \in LinkUrls }
               \cup { <<<<"#", "f", "a", "q">>, u>> : u \in LinkUrls } }

MaxCommentRisks == 2

MaxCommentFindings == 1

\* An error whose message is longer than the overlap window
LongErrorFinding == Finding("error", CatContent, <<"R", "e", "q", "u", "i", "r", "e", "d", " ", "s", "e", "c", "t", "i", "o", "n", " ", "I", "n", "s", "t", "a", "l", "l", "a", "t", "i", "o", "n", " ", "i", "s", " ", "m", "i", "s", "s", "i", "n", "g", " ", "f", "r", "o", "m", " ", "t", "h", "e", " ", "s", "e", "t", "u", "p", " ", "g", "u", "i", "d", "e">>, <<>>, 0)

\* Risks of the model's answers: besides the three above, a generic one
\* with evidence that repeats a finding, a generic one with evidence that
\* repeats none, one whose description is only a bracketed tag, one that
\* shares its first 40 characters with the long error, one that repeats the
\* grounded risk in other punctuation, and a generic one in reorganization
\* vocabulary
CommentRisks ==
    { SpeculativeRisk, GroundedRisk, ReorderRisk,
      Risk("high", <<"S", "e", "c", "u", "r", "i", "t", "y">>, <<"H", "e", "a", "d", "i", "n", "g", " ", "h", "i", "e", "r", "a", "r", "c", "h", "y", " ", "i", "s", " ", "b", "r", "o", "k", "e", "n">>, <<"d", "o", "c", "s", "/", "g", "u", "i", "d", "e", ".", "m", "d", " ", "l", "i", "n", "e", " ", "4">>, "Fix the outline"),
      Risk("medium", <<"p", "e", "r", "f", "o", "r", "m", "a", "n", "c", "e">>, <<"S", "l", "o", "w", " ", "p", "a", "g", "e", " ", "l", "o", "a", "d">>, <<"s", "r", "c", "/", "a", "p", "p", ".", "t", "s">>, "Measure it"),
      Risk("medium", CatDocs, <<"[", "T", "O", "D", "O", "]">>, <<>>, "Resolve it"),
      Risk("high", CatDocs, <<"R", "e", "q", "u", "i", "r", "e", "d", " ", "s", "e", "c", "t", "i", "o", "n", " ", "I", "n", "s", "t", "a", "l", "l", "a", "t", "i", "o", "n", " ", "i", "s", " ", "m", "i", "s", "s", "i", "n", "g", " ", "i", "n", " ", "t", "h", "e", " ", "n", "e", "w", "e", "s", "t", " ", "r", "e", "v", "i", "s", "i", "o", "n">>, <<>>, "Restore the section"),
      Risk("low", CatDocs, <<"B", "R", "O", "K", "E", "N", " ", "i", "n", "t", "e", "r", "n", "a", "l", " ", "l", "i", "n", "k", " ", "(", "#", "f", "a", "q", ")">>, <<>>, "Fix the anchor"),
      Risk("high", <<"b", "r", "e", "a", "k", "i", "n", "g">>, <<"S", "e", "c", "t", "i", "o", "n", "(", "s", ")", " ", "r", "e", "m", "o", "v", "e", "d", " ", "t", "h", "e", "n", " ", "r", "e", "-", "a", "d", "d", "e", "d">>, <<>>, "Restore the sections") }

\* The reviews commented on: the statistics of the diff, the findings and
\* the review before the guardrail
CommentCalls ==
    { [fn |-> "generateV2PRComment", stats |-> st, findings |-> fs,
       review |-> [verdict |-> Verdict(v, 90, "Looks fine overall."), keyRisks |-> rs]] :
        st \in { StatsOf(<<>>), StatsOf(ReorderChanges), StatsOf(ModifiedChanges) },
        fs \in UNION { [1..n -> {ErrorFinding, WarningFinding, LongErrorFinding}] :
                         n \in 0..MaxCommentFindings },
        v \in {"changes_requested", "commented"},
        rs \in UNION { [1..n -> CommentRisks] : n \in 0..MaxCommentRisks } }

MaxFallbackFindings == 5

\* A warning as analyzeChanges builds it: with the file, without a line
FiledWarning == Finding("warning", CatContent, <<"1", " ", "s", "e", "c", "t", "i", "o", "n", "(", "s", ")", " ", "r", "e", "m", "o", "v", "e", "d", " ", "-", " ", "e", "n", "s", "u", "r", "e", " ", "t", "h", "i", "s", " ", "i", "s", " ", "i", "n", "t", "e", "n", "t", "i", "o", "n", "a", "l">>, <<"d", "o", "c", "s", "/", "g", "u", "i", "d", "e", ".", "m", "d">>, 0)

\* The calls of generateDeterministicFallback: lists of errors and warnings
\* for a document of no genre, and every genre with the statistics of a diff
FallbackCalls ==
    { [fn |-> "generateDeterministicFallback", type |-> "other",
       stats |-> StatsOf(<<>>), findings |-> fs] :
        fs \in UNION { [1..n -> {ErrorFinding, LongErrorFinding, WarningFinding,
                                 FiledWarning}] : n \in 0..MaxFallbackFindings } }
    \cup
    { [fn |-> "generateDeterministicFallback", type |-> type,
       stats |-> [added |-> a, removed |-> r, modified |-> m, moved |-> 0],
       findings |-> <<>>] :
        type \in ChecklistTypes, a \in 0..MaxCount, r \in 0..MaxCount,
        m \in 0..MaxCount }

InitLib ==
    /\ DiffIdle
    /\ ReviewIdle
    /\ call \in ParseCalls \cup ClassifyCalls \cup ChecklistCalls \cup LinkCalls
               \cup CommentCalls \cup FallbackCalls
    /\ result = NoResult
    /\ lpc = "called"

ParseMarkdown ==
    /\ lpc = "called"
    /\ call.fn = "parseMarkdown"
    /\ result' = parseMarkdown(call.arg)
    /\ lpc' = "returned"
    /\ UNCHANGED call
    /\ UNCHANGED diffVars
    /\ UNCHANGED reviewVars

ClassifyDocument ==
    /\ lpc = "called"
    /\ call.fn = "classifyDocument"
    /\ result' = classifyDocument(call.arg)
    /\ lpc' = "returned"
    /\ UNCHANGED call
    /\ UNCHANGED diffVars
    /\ UNCHANGED reviewVars

GenerateReviewChecklist ==
    /\ lpc = "called"
    /\ call.fn = "generateReviewChecklist"
    /\ result' = generateReviewChecklist(call.type, call.stats)
    /\ lpc' = "returned"
    /\ UNCHANGED call
    /\ UNCHANGED diffVars
    /\ UNCHANGED reviewVars

\* validateLinks(parseMarkdown(content, path)) as handlePullRequest calls it
ValidateLinks ==
    /\ lpc = "called"
    /\ call.fn = "validateLinks"
    /\ result' = validateLinks([sections |-> parseMarkdown(call.arg).sections,
                                links |-> LinksOf(call.links)])
    /\ lpc' = "returned"
    /\ UNCHANGED call
    /\ UNCHANGED diffVars
    /\ UNCHANGED reviewVars

\* The end of postReviewResults: the guardrail, then the comment on the
\* review it left
GenerateV2PRComment ==
    /\ lpc = "called"
    /\ call.fn = "generateV2PRComment"
    /\ result' = generateV2PRComment(call.stats, call.findings,
                                     Guardrail(call.review, call.findings).review)
    /\ lpc' = "returned"
    /\ UNCHANGED call
    /\ UNCHANGED diffVars
    /\ UNCHANGED reviewVars

GenerateDeterministicFallback ==
    /\ lpc = "called"
    /\ call.fn = "generateDeterministicFallback"
    /\ result' = generateDeterministicFallback("", call.type, call.stats,
                                               call.findings, 0)
    /\ lpc' = "returned"
    /\ UNCHANGED call
    /\ UNCHANGED diffVars
    /\ UNCHANGED reviewVars

NextLib ==
    \/ ParseMarkdown
    \/ ClassifyDocument
    \/ GenerateReviewChecklist
    \/ ValidateLinks
    \/ GenerateV2PRComment
    \/ GenerateDeterministicFallback

SpecLib == InitLib /\ [][NextLib]_vars

-----------------------------------------------------------------------------
(* Claims on the diff engine *)

PathsOf(secs) == { secs[i].path : i \in DOMAIN secs }

OldOnly == PathsOf(oldDoc) \ PathsOf(newDoc)

NewOnly == PathsOf(newDoc) \ PathsOf(oldDoc)

Records(type) == { i \in DOMAIN diff.sections : diff.sections[i].type = type }

\* The new-only sections whose content similarity with the old section at
\* path p is above 0.8.
NewOnlyMatches(p) ==
    { q \in NewOnly :
        SimilarityAbove(MapGet(SectionMap(oldDoc), p).content,
                        MapGet(SectionMap(newDoc), q).content, 4, 5) }

\* C9: diffing a document against itself yields no change record and
\* all-zero stats, also when sections have the same or similar content.
C9_SelfDiffEmpty ==
    (dpc = "done" /\ oldDoc = newDoc) =>
        /\ diff.sections = <<>>
        /\ diff.stats = [added |-> 0, removed |-> 0, modified |-> 0, moved |-> 0]

\* A self-diff has run on a document with two sections at different paths
\* whose contents are similar above the move threshold.
C9_Witness ==
    /\ dpc = "done"
    /\ oldDoc = newDoc
    /\ Len(oldDoc) = 2
    /\ oldDoc[1].path # oldDoc[2].path
    /\ SimilarityAbove(oldDoc[1].content, oldDoc[2].content, 4, 5)

\* C10: an old-only path with a new-only section of similarity above 0.8 is
\* reported as exactly one moved record, with no removed record for the old
\* path and no added record for the new path; old-only paths without a match
\* are removed, the remaining new-only paths are added.
C10_MovedReplacesAddRemove ==
    dpc = "done" =>
        /\ \A p \in OldOnly :
              IF NewOnlyMatches(p) # {}
              THEN /\ Cardinality({ i \in Records("moved") :
                                      diff.sections[i].oldPath = p }) = 1
                   /\ \A i \in Records("removed") : diff.sections[i].oldPath # p
                   /\ \A i \in Records("moved") :
                         diff.sections[i].oldPath = p =>
                           \A j \in Records("added") :
                             diff.sections[j].newPath # diff.sections[i].newPath
              ELSE \E i \in Records("removed") : diff.sections[i].oldPath = p
        /\ \A q \in NewOnly :
              (\A i \in Records("moved") : diff.sections[i].newPath # q) =>
                 \E j \in Records("added") : diff.sections[j].newPath = q

\* The numbers of change records naming path p as old and as new path
AsOld(p) == Cardinality({ i \in DOMAIN diff.sections : diff.sections[i].oldPath = p })

AsNew(p) == Cardinality({ i \in DOMAIN diff.sections : diff.sections[i].newPath = p })

\* C11: in every result of computeSemanticDiff each old section path is
\* the oldPath of at most one change record and each new section path is
\* the newPath of at most one change record.
C11_PathInOneRecord ==
    dpc = "done" =>
        /\ \A p \in PathsOf(oldDoc) : AsOld(p) <= 1
        /\ \A p \in PathsOf(newDoc) : AsNew(p) <= 1

\* The sections of a document at path p, in document order
SectionsAt(secs, p) == SelectSeq(secs, LAMBDA x : x.path = p)

\* The paths whose sections are the same in both documents
IdenticalPaths ==
    { p \in PathsOf(oldDoc) \cap PathsOf(newDoc) :
        SectionsAt(oldDoc, p) = SectionsAt(newDoc, p) }

OldReported ==
    { diff.sections[i].oldPath :
        i \in Records("removed") \cup Records("modified") \cup Records("moved") }

NewReported ==
    { diff.sections[i].newPath :
        i \in Records("added") \cup Records("modified") \cup Records("moved") }

\* C12: the old paths of the removed, modified and moved records are the
\* old document's paths minus the paths whose section is identical in the
\* new document; the new paths of the added, modified and moved records are
\* the new document's paths minus the identical ones.
C12_ReportedPaths ==
    dpc = "done" =>
        /\ OldReported = PathsOf(oldDoc) \ IdenticalPaths
        /\ NewReported = PathsOf(newDoc) \ IdenticalPaths

\* The old document has the sections intro, setup, faq; the new one has
\* intro and faq unchanged and no section similar to setup above 0.8
SetupDropped ==
    /\ Len(oldDoc) = 3
    /\ <<oldDoc[1].path, oldDoc[2].path, oldDoc[3].path>> = <<"intro", "setup", "faq">>
    /\ newDoc = <<oldDoc[1], oldDoc[3]>>
    /\ \A i \in DOMAIN newDoc :
          ~SimilarityAbove(oldDoc[2].content, newDoc[i].content, 4, 5)

\* C13: old sections intro, setup, faq against new sections intro, faq with
\* unchanged content and no new section similar to setup: exactly one
\* change, removed for setup, and stats added 0, removed 1, modified 0,
\* moved 0.
C13_SetupRemovedOnly ==
    (dpc = "done" /\ SetupDropped) =>
        /\ diff.sections = <<Change("removed", "setup", Undef, "Setup", Undef)>>
        /\ diff.stats = [added |-> 0, removed |-> 1, modified |-> 0, moved |-> 0]

\* The scenario has run with non-empty, pairwise different contents.
C13_Witness ==
    /\ dpc = "done"
    /\ SetupDropped
    /\ oldDoc[1].content # oldDoc[3].content
    /\ Len(oldDoc[2].content) > 0
    /\ diff.stats.removed = 1

\* Old section a/b 'The quick brown fox jumps', new section x/y 'The quick
\* brown fox leaps'
FoxExample ==
    /\ oldDoc = <<Sec("a/b", "B", <<"The", "quick", "brown", "fox", "jumps">>)>>
    /\ newDoc = <<Sec("x/y", "Y", <<"The", "quick", "brown", "fox", "leaps">>)>>

\* |A \cap B| / |A \cup B| >= num / den for the word sets of a and b
SimilarityAtLeast(a, b, num, den) ==
    Cardinality(WordSet(a) \cap WordSet(b)) * den
        >= num * Cardinality(WordSet(a) \cup WordSet(b))

\* C18 as stated: for the example the similarity reaches 0.8 and the diff
\* is a single moved record, with no added and no removed record.
C18_ExampleIsMoved ==
    (dpc = "done" /\ FoxExample) =>
        /\ SimilarityAtLeast(oldDoc[1].content, newDoc[1].content, 4, 5)
        /\ diff.sections = <<Change("moved", "a/b", "x/y", "B", "Y")>>

\* C18 amended: for the example the word sets share 4 of 6 words, the
\* similarity 4/6 does not reach 0.8, and the diff reports x/y as added and
\* a/b as removed, with no moved record.
C18_ExampleIsAddRemove ==
    (dpc = "done" /\ FoxExample) =>
        /\ Cardinality(WordSet(oldDoc[1].content) \cap WordSet(newDoc[1].content)) = 4
        /\ Cardinality(WordSet(oldDoc[1].content) \cup WordSet(newDoc[1].content)) = 6
        /\ ~SimilarityAtLeast(oldDoc[1].content, newDoc[1].content, 4, 5)
        /\ diff.sections = <<Change("added", Undef, "x/y", Undef, "Y"),
                             Change("removed", "a/b", Undef, "B", Undef)>>
        /\ diff.stats = [added |-> 1, removed |-> 1, modified |-> 0, moved |-> 0]

\* The diff of the example has been computed.
C18_Witness == dpc = "done" /\ FoxExample /\ Len(diff.sections) = 2

-----------------------------------------------------------------------------
(* Claims on the synthesis functions *)

NumberOf(type) ==
    Cardinality({ i \in DOMAIN allFindings : allFindings[i].type = type })

\* C5: the fallback's verdict follows from the numbers of error and warning
\* findings alone: an error gives changes_requested; otherwise more than 3
\* warnings give commented; otherwise the verdict is approved.
C5_FallbackVerdictFromCounts ==
    (rpc = "fn_review" /\ origin = "fallback") =>
        v2Review.verdict.verdict =
            IF NumberOf("error") >= 1 THEN "changes_requested"
            ELSE IF NumberOf("warning") > 3 THEN "commented"
            ELSE "approved"

\* The fallback has run on more than 3 warnings and no error, with code
\* files present, and answered commented.
C5_Witness ==
    /\ rpc = "fn_review"
    /\ origin = "fallback"
    /\ NumberOf("warning") > 3
    /\ NumberOf("error") = 0
    /\ codeFiles = 1
    /\ docType = "readme"
    /\ v2Review.verdict.verdict = "commented"

\* C6: the verdict confidence of every review returned by parseV2Response
\* or generateDeterministicFallback, before and after the guardrail, lies in
\* [0,1] and is at most 0.82 when the verdict is approved.
C6_ConfidenceBounds ==
    v2Review # NoReview =>
        /\ v2Review.verdict.confidence \in 0..100
        /\ v2Review.verdict.verdict = "approved" =>
              v2Review.verdict.confidence <= 82

\* An approved model answer of raw confidence 1 has passed the guardrail.
C6_Witness ==
    /\ rpc = "fn_posted"
    /\ origin = "model"
    /\ aiResponse.verdict.confidence = JsNumber(100)
    /\ v2Review.verdict.verdict = "approved"
    /\ v2Review.verdict.confidence = 82

\* The answer lacks a required field, or its verdict value is none of the
\* three verdicts (absent or empty included), or its confidence is no number
\* in [0,1] (absent included).
AnswerIncomplete ==
    \/ aiResponse.shape # "object"
    \/ aiResponse.prIntent \in {"", "<undefined>"}
    \/ aiResponse.changeOverview \in {"", "<undefined>"}
    \/ ~aiResponse.verdict.present
    \/ aiResponse.verdict.verdict \notin ValidVerdicts
    \/ aiResponse.verdict.confidence.t # "number"
    \/ aiResponse.verdict.confidence.n < 0
    \/ aiResponse.verdict.confidence.n > 100

\* C7: parseV2Response returns null for every answer that lacks prIntent,
\* changeOverview or verdict, whose verdict value is not one of the three
\* verdicts or is absent, or whose confidence is not a number in [0,1] or is
\* absent.
C7_IncompleteAnswerRejected ==
    (rpc = "fn_review" /\ origin = "model" /\ AnswerIncomplete) =>
        v2Review = NoReview

\* The raw confidence of the accepted answer (the default when absent)
RawConfidence ==
    IF aiResponse.verdict.confidence.t = "number"
    THEN aiResponse.verdict.confidence.n
    ELSE 50

AnswerHasHighRisk ==
    \E i \in DOMAIN aiResponse.keyRisks.items :
        aiResponse.keyRisks.items[i].severity = "high"

\* C8: an accepted answer of raw confidence c gets min(c, 0.92) when it
\* lists a high risk and c > 0.85, min(c, 0.82) otherwise, and at most 0.82
\* when approved; so a confidence above 0.82 needs a verdict other than
\* approved and a high risk.
C8_Calibration ==
    (origin = "model" /\ v2Review # NoReview) =>
        LET c == RawConfidence
            base == IF AnswerHasHighRisk /\ c > 85 THEN Min(c, 92) ELSE Min(c, 82)
        IN /\ v2Review.verdict.confidence =
                 IF v2Review.verdict.verdict = "approved" THEN Min(base, 82) ELSE base
           /\ v2Review.verdict.confidence > 82 =>
                 /\ v2Review.verdict.verdict # "approved"
                 /\ AnswerHasHighRisk

\* An answer with a high risk, raw confidence 1 and verdict
\* changes_requested was accepted with confidence 0.92.
C8_Witness ==
    /\ rpc = "fn_review"
    /\ origin = "model"
    /\ v2Review # NoReview
    /\ AnswerHasHighRisk
    /\ aiResponse.verdict.confidence = JsNumber(100)
    /\ v2Review.verdict.verdict = "changes_requested"
    /\ v2Review.verdict.confidence = 92

-----------------------------------------------------------------------------
(* Claims on handlePullRequest and postReviewResults *)

Posted == rpc = "posted"

HasSeverity(risks, severity) ==
    \E i \in DOMAIN risks : risks[i].severity = severity

HasType(findings, type) ==
    \E i \in DOMAIN findings : findings[i].type = type

\* The review the deterministic fallback builds from the collected findings
FallbackNow ==
    generateDeterministicFallback(prBody, TypeOrOther(docType), StatsOf(changes),
                                  allFindings, codeFiles)

\* C1: after the guardrail, a posted verdict of changes_requested (check
\* conclusion failure) comes with a finding of severity error or with a
\* risk of severity high among the risks retained for rendering, i.e. after
\* reclassification, speculative-risk filtering and deduplication.
C1_RetainedHighRisk ==
    (Posted /\ (post.verdict = "changes_requested" \/ post.conclusion = "failure")) =>
        \/ HasType(post.findings, "error")
        \/ HasSeverity(post.risks, "high")

\* C2: the check-run conclusion follows the final verdict by the mapping
\* approved->success, commented->neutral, changes_requested->failure,
\* whether the verdict came from the review or from the findings and also
\* after a downgrade by the guardrail; the verdict stored in the review,
\* the verdict of the check title and the conclusion agree.
C2_ConclusionFollowsVerdict ==
    Posted =>
        /\ post.verdict \in ValidVerdicts
        /\ post.conclusion = CASE post.verdict = "approved" -> "success"
                               [] post.verdict = "commented" -> "neutral"
                               [] post.verdict = "changes_requested" -> "failure"
        /\ post.title = post.verdict
        /\ post.review # NoReview => post.review.verdict.verdict = post.verdict
        /\ v2Review = post.review

\* The guardrail has downgraded the model's changes_requested to commented
\* and the check run was posted as neutral.
C2_Witness ==
    /\ Posted
    /\ origin = "model"
    /\ genResult.value.verdict.verdict = "changes_requested"
    /\ post.verdict = "commented"
    /\ post.conclusion = "neutral"
    /\ v2Review.verdict.summary = NonBlockingSummary

\* The model call failed, or its answer was unparseable or invalid
ModelFailed ==
    /\ configured
    /\ rpc \in {"review", "posted"}
    /\ aiResponse = NoAnswer \/ parseV2Response(aiResponse) = NoReview

\* C3: when the configured model call throws, answers with a non-success
\* status or with text that is unparseable or invalid, generateV2Review
\* returns null without throwing, handlePullRequest builds the review with
\* generateDeterministicFallback and goes on to post it.
C3_ModelFailureFallsBack ==
    ModelFailed =>
        /\ genResult = [status |-> "returned", value |-> NoReview]
        /\ origin = "fallback"
        /\ rpc = "review" => v2Review = FallbackNow
        /\ rpc = "posted" => /\ post # NotPosted
                             /\ post.review # NoReview
                             /\ post.comment = "v2"

\* The fetch was rejected on a pull request with warnings, and the fallback
\* review was posted.
C3_Witness ==
    /\ Posted
    /\ configured
    /\ aiResponse = NoAnswer
    /\ HasType(allFindings, "warning")
    /\ origin = "fallback"
    /\ post.comment = "v2"
    /\ post.verdict = FallbackVerdict(0, NumberOf("warning")).verdict

\* C4: without a configured model, handlePullRequest still builds the
\* review with generateDeterministicFallback: the posted verdict is the one
\* the fallback computes from the findings and the comment has the
\* structure of the model path.
C4_UnconfiguredUsesFallback ==
    (Posted /\ ~configured) =>
        /\ post.verdict = FallbackNow.verdict.verdict
        /\ post.comment = "v2"
        /\ post.review # NoReview

\* C17: every pull-request event handled with a configured model
\* eventually posts a review, also when the backend never answers: the call
\* is bounded by a timeout after which the deterministic path continues.
C17_CallIsBounded == (configured /\ rpc = "calling") ~> Posted

-----------------------------------------------------------------------------
(* Claims on parseMarkdown *)

Parsed == lpc = "returned" /\ call.fn = "parseMarkdown"

\* The nearest preceding heading of a strictly shallower level, 0 if none
ParentOf(headings, i) ==
    LET above == { j \in 1..(i - 1) : headings[j].level < headings[i].level }
    IN IF above = {} THEN 0 ELSE CHOOSE j \in above : \A k \in above : k <= j

\* The heading's chain of parents ends at a level-1 heading
RECURSIVE Rooted(_, _)
Rooted(headings, i) ==
    \/ headings[i].level = 1
    \/ /\ ParentOf(headings, i) # 0
       /\ Rooted(headings, ParentOf(headings, i))

\* The slug path of the parent followed by the heading's own slug
RECURSIVE HierarchicalPath(_, _)
HierarchicalPath(headings, i) ==
    IF headings[i].level = 1 THEN slugify(headings[i].text)
    ELSE HierarchicalPath(headings, ParentOf(headings, i))
         \o <<"/">> \o slugify(headings[i].text)

\* C19: each section's path is the slug path of its nearest preceding
\* heading of a strictly shallower level followed by its own slug, a
\* level-1 heading has its own slug alone; headings of one level under one
\* parent get sibling paths.
C19_PathFollowsParent ==
    Parsed =>
        \A i \in DOMAIN call.arg :
            Rooted(call.arg, i) =>
                result.sections[i].path = HierarchicalPath(call.arg, i)

\* C20: the section paths of a parsed document are pairwise distinct.
C20_PathsDistinct ==
    Parsed =>
        \A i, j \in DOMAIN result.sections :
            i # j => result.sections[i].path # result.sections[j].path

-----------------------------------------------------------------------------
(* Claims on the classifier *)

Classified == lpc = "returned" /\ call.fn = "classifyDocument"

\* the score of the genre returned, 0 for other
WinningScore ==
    IF result.type = "other" THEN 0 ELSE Scores(call.arg)[result.type]

\* C14: the confidence classifyDocument returns is in [0,1]; when some genre
\* score is positive it equals min(winningScore / sum of the genre scores
\* + 0.3, 1) and so is at least 0.3; when every genre score is 0 the type is
\* other and the confidence 0.
C14_ConfidenceNormalised ==
    Classified =>
        LET total == TotalScore(Scores(call.arg))
            c == result.confidence
        IN /\ c.den > 0 /\ 0 <= c.num /\ c.num <= c.den
           /\ total > 0 =>
                /\ IF 10 * WinningScore + 3 * total >= 10 * total
                   THEN c.num = c.den
                   ELSE c.num * 10 * total = (10 * WinningScore + 3 * total) * c.den
                /\ 10 * c.num >= 3 * c.den
           /\ total = 0 => result.type = "other" /\ c.num = 0

\* a classification where the cap applies: one genre holds more than 0.7 of
\* the total score
C14_Witness ==
    /\ Classified
    /\ result.type # "other"
    /\ 10 * WinningScore > 7 * TotalScore(Scores(call.arg))
    /\ result.confidence.num = result.confidence.den

\* C15: classifyDocument returns a genre of maximal score; of several genres
\* with the maximal positive score it returns the first in the order of the
\* pattern table, and it returns other only when no genre scores above zero.
C15_FirstMaximalGenre ==
    Classified =>
        LET scores == Scores(call.arg)
        IN IF result.type = "other"
           THEN \A i \in DOMAIN Genres : scores[Genres[i]] = 0
           ELSE \E i \in DOMAIN Genres :
                  /\ result.type = Genres[i]
                  /\ scores[Genres[i]] > 0
                  /\ \A j \in DOMAIN Genres : scores[Genres[j]] <= scores[Genres[i]]
                  /\ \A j \in 1..(i - 1) : scores[Genres[j]] < scores[Genres[i]]

\* a classification of a document on which two genres share the maximal
\* positive score
C15_Witness ==
    /\ Classified
    /\ \E j \in DOMAIN Genres :
         /\ Genres[j] # result.type
         /\ Scores(call.arg)[Genres[j]] = WinningScore
         /\ WinningScore > 0

-----------------------------------------------------------------------------
(* Claims on the review checklist *)

ChecklistReturned == lpc = "returned" /\ call.fn = "generateReviewChecklist"

\* the first character of every item after the fixed ones
DiffItemMarks ==
    LET n == Len(FixedChecklist(call.type))
    IN [i \in 1..(Len(result) - n) |-> Head(result[n + i])]

\* C16: generateReviewChecklist returns the fixed items of the genre, 3 to 5
\* of them and the 4 readme items for readme, followed in this order by one
\* item for added sections iff stats.added > 0, one for removed sections iff
\* stats.removed > 0 and one for modified sections iff stats.modified > 0;
\* the document passed and stats.moved change nothing.
C16_ChecklistIsFixedThenDiff ==
    ChecklistReturned =>
        LET fixed == FixedChecklist(call.type)
        IN /\ Len(fixed) \in 3..5
           /\ call.type = "readme" => Len(fixed) = 4
           /\ Len(result) >= Len(fixed)
           /\ SubSeq(result, 1, Len(fixed)) = fixed
           /\ DiffItemMarks =
                (IF call.stats.added > 0 THEN <<"U+D83D">> ELSE <<>>)
                \o (IF call.stats.removed > 0 THEN <<"U+26A0">> ELSE <<>>)
                \o (IF call.stats.modified > 0 THEN <<"U+270F">> ELSE <<>>)

\* the readme checklist of a diff that added, removed and modified sections
C16_Witness ==
    /\ ChecklistReturned
    /\ call.type = "readme"
    /\ call.stats.added > 0 /\ call.stats.removed > 0 /\ call.stats.modified > 0
    /\ call.doc # Absent
    /\ Len(result) = 7

-----------------------------------------------------------------------------
(* Claims on link validation *)

LinksValidated == lpc = "returned" /\ call.fn = "validateLinks"

\* validateLinks returned a Broken internal link warning for the url
BrokenReported(url) ==
    \E i \in DOMAIN result :
        /\ result[i].type = "warning"
        /\ result[i].message = <<"B", "r", "o", "k", "e", "n", " ", "i", "n", "t", "e", "r", "n", "a", "l", " ", "l", "i", "n", "k", ":", " ">> \o url

\* C21: a link to a non-empty fragment gets a Broken internal link warning
\* exactly when the fragment is not the path of a section of the document;
\* a fragment that names an existing section gets none.
C21_FragmentLinksResolved ==
    LinksValidated =>
        LET paths == { sec.path : sec \in Range(parseMarkdown(call.arg).sections) }
        IN \A i \in DOMAIN call.links :
              StartsWith(call.links[i], <<"#">>) /\ Len(call.links[i]) > 1 =>
                 (BrokenReported(call.links[i]) <=> Tail(call.links[i]) \notin paths)

-----------------------------------------------------------------------------
(* Claims on the review comment *)

Commented == lpc = "returned" /\ call.fn = "generateV2PRComment"

\* some finding's normalized message overlaps the risk's normalized
\* description, by the window rule of the filter
OverlapsSomeFinding(risk) ==
    \E i \in DOMAIN call.findings :
        Overlaps(normalizeTextForCompare(call.findings[i].message),
                 normalizeTextForCompare(risk.description))

\* The rule of the filter, where normalized says whether a risk has a
\* description when its normalized description is not empty, or when its
\* description as given is not empty
RetainedBy(risk, normalized) ==
    IF (IF normalized THEN normalizeTextForCompare(risk.description) = <<>>
        ELSE risk.description = <<>>)
    THEN FALSE
    ELSE IF toLowerCase(risk.category) \in GenericCategories
    THEN hasConcreteEvidence(toLowerCase(risk.evidence)) /\ OverlapsSomeFinding(risk)
    ELSE TRUE

\* C22 as stated: a risk of a generic category is retained iff its evidence
\* is concrete and its description overlaps a finding, a risk with an empty
\* description is dropped, and a risk of another category with a non-empty
\* description is retained.
C22_RetainedUnlessEmpty ==
    Commented =>
        result.keyRisks =
            SelectSeq(result.reclassified, LAMBDA r : RetainedBy(r, FALSE))

\* C22 amended: the description that counts is the normalized one; a risk
\* whose description normalizes to the empty text is dropped whatever its
\* category.
C22_RetainedUnlessNormalizedEmpty ==
    Commented =>
        result.keyRisks =
            SelectSeq(result.reclassified, LAMBDA r : RetainedBy(r, TRUE))

\* a risk of another category whose description is not empty but normalizes
\* to the empty text went through the filter, next to a finding
C22_Witness ==
    /\ Commented
    /\ call.findings # <<>>
    /\ \E i \in DOMAIN result.reclassified :
         /\ result.reclassified[i].description # <<>>
         /\ normalizeTextForCompare(result.reclassified[i].description) = <<>>
         /\ toLowerCase(result.reclassified[i].category) \notin GenericCategories
    /\ Len(result.keyRisks) < Len(result.reclassified)

\* C23: a risk is rewritten to severity low, category docs and the fixed
\* description and suggestion iff its text has reorganization vocabulary and
\* the diff has moved, added and removed sections; every other risk is
\* passed on unchanged; the filter then works on the rewritten risks.
C23_RewrittenBeforeFilter ==
    Commented =>
        LET given == call.review.keyRisks
            reorder == call.stats.moved > 0 /\ call.stats.added > 0
                       /\ call.stats.removed > 0
            vocabulary(r) == \E h \in MoveHints : Includes(RiskText(r), h)
        IN /\ DOMAIN result.reclassified = DOMAIN given
           /\ \A i \in DOMAIN given :
                result.reclassified[i] =
                    IF vocabulary(given[i]) /\ reorder
                    THEN [given[i] EXCEPT !.severity = "low", !.category = CatDocs,
                                          !.description = ReorderDescription,
                                          !.suggestion = ReorderSuggestion]
                    ELSE given[i]
           /\ result.keyRisks =
                SelectSeq(result.reclassified,
                          LAMBDA r : ~isGenericSpeculativeRisk(r, call.findings))

\* a risk of a generic category without evidence was rewritten and so passed
\* the filter, in the comment on a diff that moved, added and removed sections
C23_Witness ==
    /\ Commented
    /\ \E i \in DOMAIN call.review.keyRisks :
         /\ toLowerCase(call.review.keyRisks[i].category) \in GenericCategories
         /\ call.review.keyRisks[i].evidence = <<>>
         /\ result.reclassified[i].description = ReorderDescription
    /\ \E j \in DOMAIN result.keyRisks :
         result.keyRisks[j].description = ReorderDescription

-----------------------------------------------------------------------------
(* Claims on the deterministic fallback *)

FallbackReturned == lpc = "returned" /\ call.fn = "generateDeterministicFallback"

\* The risk is built from the finding: its category and message, and as
\* evidence the file with the line when there is one, General without a file
RiskFrom(risk, finding, severity) ==
    /\ risk.severity = severity
    /\ risk.category = finding.category
    /\ risk.description = finding.message
    /\ risk.evidence =
         IF finding.file = <<>> THEN <<"G", "e", "n", "e", "r", "a", "l">>
         ELSE <<"F", "i", "l", "e", ":", " ">> \o finding.file
              \o (IF finding.line = 0 THEN <<>> ELSE <<":">> \o NumText(finding.line))

\* C26: the risks of generateDeterministicFallback are the first 3 error
\* findings as high risks followed by the first 2 warning findings as medium
\* risks, in the order of the finding list, at most 5, each with the file
\* and line of its finding as evidence when the finding has a file.
C26_RisksFromFirstFindings ==
    FallbackReturned =>
        LET errors == SelectSeq(call.findings, LAMBDA f : f.type = "error")
            warnings == SelectSeq(call.findings, LAMBDA f : f.type = "warning")
            nHigh == Min(3, Len(errors))
            nMedium == Min(2, Len(warnings))
            risks == result.keyRisks
        IN /\ Len(risks) = nHigh + nMedium
           /\ Len(risks) <= 5
           /\ \A i \in 1..nHigh : RiskFrom(risks[i], errors[i], "high")
           /\ \A i \in 1..nMedium : RiskFrom(risks[nHigh + i], warnings[i], "medium")

\* a fallback on more than 3 errors, of which the first three differ from
\* the fourth, and a warning
C26_Witness ==
    /\ FallbackReturned
    /\ LET errors == SelectSeq(call.findings, LAMBDA f : f.type = "error")
       IN /\ Len(errors) > 3
          /\ errors[4] # errors[3]
    /\ Len(result.keyRisks) = 4

\* C27: for every genre the checklist of the review that
\* generateDeterministicFallback returns contains the fixed items
\* generateReviewChecklist has for the genre, with or without their check
\* mark.
C27_FallbackHasGenreItems ==
    FallbackReturned =>
        LET fixed == FixedChecklist(call.type)
        IN \A i \in DOMAIN fixed :
              \E j \in DOMAIN result.checklist :
                 \/ result.checklist[j].item = fixed[i]
                 \/ result.checklist[j].item = SubSeq(fixed[i], 3, Len(fixed[i]))

-----------------------------------------------------------------------------
(* Claims on the findings and the guardrail *)

\* C28: every finding handlePullRequest collects is an info or a warning; so
\* a review built by generateDeterministicFallback in handlePullRequest never
\* has the verdict changes_requested, and a failure conclusion is posted
\* only for a review that came from a model answer.
C28_NoErrorFindings ==
    /\ \A i \in DOMAIN allFindings : allFindings[i].type \in {"info", "warning"}
    /\ origin = "fallback" => v2Review.verdict.verdict # "changes_requested"
    /\ Posted /\ post.conclusion = "failure" => origin = "model"

\* a fallback review built from findings with a warning among them was
\* posted
C28_Witness ==
    /\ Posted
    /\ origin = "fallback"
    /\ HasType(allFindings, "warning")

\* C29: posting a review of generateDeterministicFallback leaves it as it is:
\* it has the verdict changes_requested only with a high risk, and its
\* verdict is the one posted. When posting changes a review, the new verdict
\* is commented with the conclusion neutral, and the confidence and every
\* field of the review but the verdict are as before.
C29_GuardrailFrame ==
    [][rpc = "fn_review" /\ rpc' = "fn_posted" =>
         /\ origin = "fallback" =>
              /\ v2Review' = v2Review
              /\ post'.verdict = v2Review.verdict.verdict
              /\ v2Review.verdict.verdict = "changes_requested"
                   => HasSeverity(v2Review.keyRisks, "high")
         /\ v2Review' # v2Review =>
              /\ v2Review'.verdict.verdict = "commented"
              /\ v2Review'.verdict.confidence = v2Review.verdict.confidence
              /\ [v2Review' EXCEPT !.verdict = v2Review.verdict] = v2Review
              /\ post'.verdict = "commented"
              /\ post'.conclusion = "neutral"]_vars

\* a review of the model was downgraded when it was posted
C29_Witness ==
    /\ rpc = "fn_posted"
    /\ origin = "model"
    /\ aiResponse.verdict.verdict = "changes_requested"
    /\ post.verdict = "commented"
    /\ v2Review.verdict.summary = NonBlockingSummary

\* C30: the pass of the loop for a file without content at the base or at
\* the head adds exactly one change record, of type added, and sets the
\* document type to the classification of that file, whatever it was before.
C30_MissingRevisionIsOneAddition ==
    [][rpc = "files" /\ filesLeft' # filesLeft
       /\ ~(current'.baseContent /\ current'.headContent) =>
         /\ Len(changes') = Len(changes) + 1
         /\ SubSeq(changes', 1, Len(changes)) = changes
         /\ changes'[Len(changes')].type = "added"
         /\ docType' = current'.classified]_vars

\* the second pass of a loop was for a deleted file
C30_Witness ==
    /\ rpc = "files"
    /\ current # NoFile
    /\ current.baseContent /\ ~current.headContent
    /\ filesLeft = 0
    /\ Len(changes) > 1

=============================================================================
